---- MODULE Spec2Model ----
(***************************************************************************)
(* Model of the automatic cycle-detection engine of WorkStudyPro            *)
(* (components/VideoAnalyzer, src/unnamed/part_000 lines 357-1194) and of   *)
(* the App handlers that feed it (src/App.tsx).                             *)
(*                                                                         *)
(* Units.  Video timestamps are integers in milliseconds (the code uses    *)
(* seconds as floats: 1.0 s = 1000, 1.5 s = 1500).  Change scores are       *)
(* integers in 1/10000 (the code uses floats in [0,1]: 0.23 = 2300).        *)
(* sensitivity is kept in tenths (6 = 60, 7.5 = 75) so that the threshold   *)
(* 0.35 - 0.02*sensitivity stays an integer.                                *)
(***************************************************************************)
EXTENDS Integers, Sequences, FiniteSets, TLC

VARIABLES
    \* the <video> element
    videoTime,        \* video.currentTime
    paused,           \* video.paused
    duration,         \* video.duration
    \* props handed down by App
    triggerSteps,     \* App state triggerSteps: sequence of zones
    sensitivity,      \* App state sensitivity (tenths)
    taktTime,         \* App state taktTime (ms)
    \* VideoAnalyzer React state
    mode,             \* 'setup' | 'running'
    setupSubMode,     \* 'start_roi' | 'anchor' | 'none'
    refImagesStart,   \* refImages.start is non-null
    drawingRect,      \* drawingRect, NoRect when null
    dragStart,        \* dragStart.current, NoPoint when null
    draggingStepId,   \* draggingStepId, NoId when null
    dragOffset,       \* dragOffset.current
    \* VideoAnalyzer refs: CV engine state
    startRefMat,      \* startRefMat.current, NoMat when null
    signalState,      \* signalState.current
    logicState,       \* logicState.current
    cycleStartTime,   \* cycleStartTime.current
    cooldownTimer,    \* cooldownTimer.current
    visualState,      \* visualState.current
    currentAction,    \* aiState.current.currentAction
    aiState,          \* aiState.current: leftHandVel, rightHandVel, lastPos
    \* VideoAnalyzer state and refs: anchor tracking
    anchorRect,       \* anchorRect, NoRect when null
    anchorMat,        \* anchorMat.current, NoMat when null
    trackingOffset,   \* trackingOffset.current
    isTrackingLost,   \* isTrackingLost.current
    closureAnchorRect, \* anchorRect as closed over by the current processFrame
    \* output
    cycles,           \* the Cycles handed to onCycleComplete, in order
    notice,           \* the message the last step showed: onStatusUpdate / alert
    \* history: analysis was stopped, or the video timestamp jumped backwards
    interrupted,
    \* inputs and result of one calculateChangeScore call (SpecScore)
    scoreCall,
    \* the results MediaPipe Pose hands to onPoseResults
    poseResults,
    \* the animation-frame clock and the throttle gates of processFrame
    sinceProcess,     \* now - lastProcessTime.current, after the last callback
    sincePose,        \* time since the last pose.send, ClockCap when none
    isCvReady,        \* React state isCvReady
    isAiReady,        \* React state isAiReady, set with poseRef.current
    refreshInterval,  \* time between two animation frames (ms)
    \* the other tabs of App
    rpw,              \* Rearrangement: one autoBalanceRPW call
    twin              \* ProductionDigitalTwin: the simulation

videoVars  == <<videoTime, paused, duration>>
propVars   == <<triggerSteps, sensitivity, taktTime>>
uiVars     == <<mode, setupSubMode, refImagesStart, drawingRect, dragStart,
                draggingStepId, dragOffset>>
logicVars  == <<logicState, cycleStartTime, cooldownTimer, visualState>>
engineVars == <<startRefMat, signalState, logicState, cycleStartTime,
                cooldownTimer, visualState, currentAction>>
trackVars  == <<anchorRect, anchorMat, trackingOffset, isTrackingLost,
                closureAnchorRect>>
gateVars   == <<sinceProcess, sincePose, isCvReady, isAiReady,
                refreshInterval>>
toolVars   == <<rpw, twin>>
vars == <<videoTime, paused, duration, triggerSteps, sensitivity, taktTime,
          mode, setupSubMode, refImagesStart, drawingRect, dragStart,
          draggingStepId, dragOffset, startRefMat, signalState, logicState,
          cycleStartTime, cooldownTimer, visualState, currentAction, aiState,
          anchorRect, anchorMat, trackingOffset, isTrackingLost,
          closureAnchorRect, cycles, notice, interrupted, scoreCall,
          poseResults, sinceProcess, sincePose, isCvReady, isAiReady,
          refreshInterval, rpw, twin>>

Max(a, b) == IF a > b THEN a ELSE b
Min(a, b) == IF a < b THEN a ELSE b

(***************************************************************************)
(* Bounds of the model.                                                     *)
(***************************************************************************)
\* number of StepMs steps in the video of the engine specification
EngineSteps == 7
\* number of StepMs steps in the video of the session after its first Cycle
DurationSteps == 11
\* number of Cycles after which the engine specification stops processing
MaxCycles == 1
\* number of frames processed in the scenario specification
ScenarioFrames == 100
\* the mouse visits GridPoints + 1 points of the video's diagonal
GridPoints == 1
\* the largest sensitivity of the threshold specification
MaxSensitivity == 10
\* the clock readings now - lastProcessTime.current saturate at ClockCap ms
ClockCap == 100


(***************************************************************************)
(* Program constants.                                                       *)
(***************************************************************************)
\* CV_CONFIG.EMA_ALPHA = 0.2 = 1/EMA_ALPHA_INV
EMA_ALPHA_INV == 5
\* CV_CONFIG.MIN_CYCLE_TIME = 1.0 s
MIN_CYCLE_TIME == 1000
\* cooldownTimer.current = timestamp + 1.5
COOLDOWN_TIME == 1500
\* useState<number>(6), in tenths
DefaultSensitivity == 60
\* if (... || now - lastProcessTime.current < 50) return, in ms
FRAME_GATE == 50
\* if (now - lastProcessTime.current > 66) poseRef.current.send(...), in ms
POSE_GATE == 66
\* drawingRect.width > 10, in pixels
MIN_DRAW_WIDTH == 10
\* trackAnchor: const margin = 50, in pixels
TRACK_MARGIN == 50
\* trackAnchor: minMax.maxVal > 0.6, in 1/10000
MATCH_THRESHOLD == 6000
\* onPoseResults: moveThreshold = 0.005, in 1/100000 of the frame
MOVE_THRESHOLD == 500
\* onPoseResults: reachThreshold = 0.02, in 1/100000 of the frame
REACH_THRESHOLD == 2000
\* onPoseResults: avgDist > 0.4, in 1/100000 of the frame
REACH_EXTENSION == 40000

\* the spacing of the sampled video timestamps: 0.5 s, so that a duration
\* of exactly MIN_CYCLE_TIME and a frame exactly at cooldownTimer occur
StepMs == MIN_CYCLE_TIME \div 2

\* a null Mat reference
NoMat   == [cols |-> 0, rows |-> 0, deleted |-> FALSE,
            src |-> [x |-> 0, y |-> 0, width |-> 0, height |-> 0]]
\* drawingRect = null, dragStart.current = null, draggingStepId = null
NoRect  == [x |-> 0, y |-> 0, width |-> -1, height |-> -1]
NoPoint == [x |-> -1, y |-> -1]
NoId    == "none"

\* highThreshold = Math.max(0.01, 0.35 - (sensitivity * 0.02))
highThreshold == Max(100, 3500 - 20 * sensitivity)
\* variant: the lower threshold is half the upper one
lowThresholdHalf == highThreshold \div 2

\* lowThreshold = highThreshold * 0.6
lowThreshold == (highThreshold * 6) \div 10

\* variant: no smoothing, the raw score drives the controller
NoSmoothing(rawScore, prevSmooth) == rawScore

\* smoothScore = (alpha * rawScore) + ((1 - alpha) * prevSmooth), rounded down
\* to the score unit
EMA(rawScore, prevSmooth) ==
    (rawScore + (EMA_ALPHA_INV - 1) * prevSmooth) \div EMA_ALPHA_INV

ZeroSignal == [raw |-> 0, smooth |-> 0, prevSmooth |-> 0]

\* aiState.current after construction; lastPos: null is known = FALSE
NoLastPos ==
    [known |-> FALSE, left |-> [x |-> 0, y |-> 0], right |-> [x |-> 0, y |-> 0]]
InitialAiState ==
    [leftHandVel |-> 0, rightHandVel |-> 0, lastPos |-> NoLastPos]

\* the anchor tracking state after construction: no anchor box, no template
Untracked ==
    /\ anchorRect = NoRect
    /\ anchorMat = NoMat
    /\ trackingOffset = [x |-> 0, y |-> 0]
    /\ isTrackingLost = FALSE
    /\ closureAnchorRect = NoRect

\* no results are on their way to onPoseResults
NoPose ==
    [pending |-> FALSE, poseLandmarks |-> FALSE,
     leftWrist |-> [x |-> 0, y |-> 0], rightWrist |-> [x |-> 0, y |-> 0],
     nose |-> [x |-> 0, y |-> 0]]

\* the Rearrangement tab before the balance button is clicked
NoRpw ==
    [pc |-> "idle", pool |-> <<>>, taktTime |-> 0, dependencies |-> <<>>,
     remainingTasks |-> <<>>, newStations |-> <<>>, currentStation |-> <<>>,
     currentStationTime |-> 0, assignedIds |-> {}]

\* the digital twin before it is mounted
NoTwin ==
    [isPlaying |-> FALSE, speed |-> 0, lag |-> 0, stations |-> <<>>,
     transits |-> <<>>, due |-> <<>>, inProcess |-> <<>>,
     finishedCount |-> 0, event |-> "none"]

\* the analyzer is the tab shown: the other tabs are not mounted
ToolsIdle == rpw = NoRpw /\ twin = NoTwin

\* the gates of a session whose OpenCV is loaded and whose pose model is
\* not, right after a change-detection step, on a display that refreshes
\* every FRAME_GATE ms
GateIdle ==
    /\ sinceProcess = 0
    /\ sincePose = ClockCap
    /\ isCvReady = TRUE
    /\ isAiReady = FALSE
    /\ refreshInterval = FRAME_GATE

\* the gates right after a callback that sent a pose request and took a
\* change-detection step, on a display that refreshes every 2 * FRAME_GATE ms
GateFeeding ==
    /\ sinceProcess = 0
    /\ sincePose = 0
    /\ isCvReady = TRUE
    /\ isAiReady = TRUE
    /\ refreshInterval = 2 * FRAME_GATE

\* setDuration(0): the duration while no video is loaded
NoDuration == 0

\* what a step shows the user: onStatusUpdate(text), alert(text), or nothing
NoNotice     == [via |-> "none", text |-> ""]
Status(text) == [via |-> "status", text |-> text]
Alert(text)  == [via |-> "alert", text |-> text]

\* { id: 'start', name: "Work Zone", rect: rect, ... }
Step(rect) == [id |-> "start", rect |-> rect]

(***************************************************************************)
(* Geometry and the change scorer.  Coordinates are in half pixels, so     *)
(* that Math.floor has something to round.                                 *)
(***************************************************************************)
\* coordinate units per pixel
PX == 2

\* Math.floor of a coordinate
Floor(v) == PX * (v \div PX)

\* spacing of the mouse positions: 20 pixels, a drawable zone width
GridStep == 2 * MIN_DRAW_WIDTH * PX

\* video.videoWidth, video.videoHeight
VideoWidth  == (GridPoints + 1) * GridStep
VideoHeight == (GridPoints + 1) * GridStep

\* a Mat of cols x rows (in coordinate units) cut from rect of the frame
MatOf(rect, w, h) == [cols |-> w, rows |-> h, src |-> rect, deleted |-> FALSE]

\* variant: a zone one pixel wide or high is still extracted
DegenerateBelowOne(w, h) == w < PX \/ h < PX

\* if (w <= 1 || h <= 1) return null
Degenerate(w, h) == w <= PX \/ h <= PX

\* extractRoiMat(rect, sourceMat), sourceMat being cols x rows
extractRoiMat(rect, cols, rows) ==
    LET x0 == Floor(rect.x)
        y0 == Floor(rect.y)
        w0 == Floor(rect.width)
        h0 == Floor(rect.height)
        w1 == IF x0 < 0 THEN w0 + x0 ELSE w0
        x1 == IF x0 < 0 THEN 0 ELSE x0
        h1 == IF y0 < 0 THEN h0 + y0 ELSE h0
        y1 == IF y0 < 0 THEN 0 ELSE y0
        w2 == IF x1 + w1 > cols THEN cols - x1 ELSE w1
        h2 == IF y1 + h1 > rows THEN rows - y1 ELSE h1
    IN  IF Degenerate(w2, h2) THEN NoMat ELSE MatOf(rect, w2, h2)

Return(v) == [kind |-> "return", value |-> v]
Throw     == [kind |-> "throw", value |-> 0]

\* number of pixels of a Mat
Pixels(mat) == (mat.cols \div PX) * (mat.rows \div PX)

\* the try block of calculateChangeScore; cv is what OpenCV does on this
\* call: cv.fails, a CV step throws; cv.share, how many halves of the
\* zone's pixels differ from the reference by more than DIFF_THRESHOLD
scoreBody(refMat, rect, offset, cols, rows, cv) ==
    LET adjustedRect == [rect EXCEPT !.x = rect.x + offset.x,
                                     !.y = rect.y + offset.y]
        roi          == extractRoiMat(adjustedRect, cols, rows)
        nonZero      == (cv.share * Pixels(roi)) \div 2
        totalPixels  == rect.width * rect.height
    IN  IF refMat = NoMat \/ refMat.deleted THEN Return(0)
        ELSE IF roi = NoMat THEN Return(0)
        ELSE IF cv.fails THEN Throw
        \* cv.absdiff throws on Mats of different sizes
        ELSE IF roi.cols # refMat.cols \/ roi.rows # refMat.rows THEN Throw
        ELSE IF totalPixels > 0
               THEN Return((nonZero * PX * PX * 10000) \div totalPixels)
               ELSE Return(0)

\* variant: the exception escapes to the caller
Rethrow(r) == r

\* catch (e) { return 0; }
Catch(r) == IF r.kind = "throw" THEN Return(0) ELSE r

calculateChangeScore(refMat, rect, offset, cols, rows, cv) ==
    Catch(scoreBody(refMat, rect, offset, cols, rows, cv))

(***************************************************************************)
(* The logic controller: processLogic(score, timestamp).                    *)
(***************************************************************************)
\* variant: the cooldown ends on the frame that reaches cooldownTimer
CooldownOverOrEqual(timestamp) == timestamp >= cooldownTimer

\* if (timestamp > cooldownTimer.current)
CooldownOver(timestamp) == timestamp > cooldownTimer

\* variant: a score equal to highThreshold triggers
ReachesHigh(score) == score >= highThreshold

\* if (score > highThreshold)
ExceedsHigh(score) == score > highThreshold

\* variant: one threshold, no hysteresis band
BelowHigh(score) == score < highThreshold

\* if (score < lowThreshold)
BelowLow(score) == score < lowThreshold

\* variant: a trigger of exactly MIN_CYCLE_TIME is a cycle
LongEnoughOrEqual(d) == d >= MIN_CYCLE_TIME

\* variant: any trigger of positive length is a cycle
LongEnoughPositive(d) == d > 0

\* if (duration > CV_CONFIG.MIN_CYCLE_TIME)
LongEnough(d) == d > MIN_CYCLE_TIME

\* variant: a cycle as long as the takt time is 'over'
CycleStatusOrEqual(d) == IF d >= taktTime THEN "over" ELSE "ok"

\* let status = 'ok'; if (duration > taktTime) status = 'over';
CycleStatus(d) == IF d > taktTime THEN "over" ELSE "ok"

\* aiLabel === 'IDLE' ? 'Operation' : (aiLabel === 'TRANSPORT' ? 'Transport' : 'Operation')
\* variant: the classifier's action is passed on as it is
AiLabelRaw(action) ==
    IF action = "IDLE" THEN "Idle"
    ELSE IF action = "TRANSPORT" THEN "Transport" ELSE "Operation"

\* aiLabel === 'IDLE' ? 'Operation'
\*     : (aiLabel === 'TRANSPORT' ? 'Transport' : 'Operation')
AiLabel(action) ==
    IF action = "IDLE" THEN "Operation"
    ELSE IF action = "TRANSPORT" THEN "Transport" ELSE "Operation"

\* const duration = timestamp - cycleStartTime.current
CycleDuration(timestamp) == timestamp - cycleStartTime

\* the object handed to onCycleComplete (id: Date.now() is left out)
NewCycle(timestamp) ==
    [startTime |-> cycleStartTime,
     endTime   |-> timestamp,
     duration  |-> CycleDuration(timestamp),
     status    |-> CycleStatus(CycleDuration(timestamp)),
     aiLabel   |-> AiLabel(currentAction)]

\* cooldownTimer.current = timestamp + 1.5
NextCooldownTimer(timestamp) == timestamp + COOLDOWN_TIME

processLogic(score, timestamp) ==
    IF logicState = "COOLDOWN" THEN
        /\ IF CooldownOver(timestamp)
             THEN logicState' = "IDLE" /\ visualState' = "Ready"
             ELSE UNCHANGED <<logicState, visualState>>
        /\ notice' = NoNotice
        /\ UNCHANGED <<cycleStartTime, cooldownTimer, cycles>>
    ELSE IF logicState = "IDLE" THEN
        /\ IF ExceedsHigh(score)
             THEN /\ logicState' = "TRIGGERED"
                  /\ cycleStartTime' = timestamp
                  /\ visualState' = "WORK STARTED"
                  /\ notice' = Status("Cycle Started")
             ELSE /\ UNCHANGED <<logicState, cycleStartTime, visualState>>
                  /\ notice' = NoNotice
        /\ UNCHANGED <<cooldownTimer, cycles>>
    ELSE \* logicState = "TRIGGERED"
        IF BelowLow(score) THEN
            IF LongEnough(CycleDuration(timestamp)) THEN
                /\ cycles' = Append(cycles, NewCycle(timestamp))
                /\ visualState' = "Cycle Finished"
                /\ notice' = Status("Cycle Logged")
                /\ logicState' = "COOLDOWN"
                /\ cooldownTimer' = NextCooldownTimer(timestamp)
                /\ UNCHANGED cycleStartTime
            ELSE
                /\ logicState' = "IDLE"
                /\ visualState' = "False Trigger (Too Short)"
                /\ notice' = NoNotice
                /\ UNCHANGED <<cycleStartTime, cooldownTimer, cycles>>
        ELSE
            /\ visualState' = "Working..."
            /\ notice' = NoNotice
            /\ UNCHANGED <<logicState, cycleStartTime, cooldownTimer, cycles>>

(***************************************************************************)
(* The main loop: processFrame.  The action is one pass of the loop that    *)
(* gets past the throttle gate (CV ready, video playing, 50 ms elapsed);    *)
(* rawScore is what calculateChangeScore returns for the frame's pixels.    *)
(***************************************************************************)
\* if (!isTrackingLost.current && startRefMat.current && triggerSteps[0])
ScoringEnabled ==
    ~isTrackingLost /\ startRefMat # NoMat /\ Len(triggerSteps) > 0

\* the search window of trackAnchor on a frame of cols x rows: the anchor
\* box rect moved by the tracking offset, with a margin on every side
SearchWindow(rect, cols, rows) ==
    LET lastX   == rect.x + trackingOffset.x
        lastY   == rect.y + trackingOffset.y
        searchX == Max(0, lastX - TRACK_MARGIN * PX)
        searchY == Max(0, lastY - TRACK_MARGIN * PX)
    IN  [x      |-> searchX,
         y      |-> searchY,
         width  |-> Min(cols - searchX, rect.width + 2 * TRACK_MARGIN * PX),
         height |-> Min(rows - searchY, rect.height + 2 * TRACK_MARGIN * PX)]

\* foundX, foundY: searchX + minMax.maxLoc.x, searchY + minMax.maxLoc.y;
\* match.last: the best location is the last (else the first) of the window
FoundPosition(rect, match, cols, rows) ==
    LET win == SearchWindow(rect, cols, rows)
    IN  [x |-> win.x + (IF match.last THEN win.width - anchorMat.cols ELSE 0),
         y |-> win.y + (IF match.last THEN win.height - anchorMat.rows ELSE 0)]

\* cv.matchTemplate throws unless the template fits into the search window
TemplateFits(rect, cols, rows) ==
    /\ SearchWindow(rect, cols, rows).width >= anchorMat.cols
    /\ SearchWindow(rect, cols, rows).height >= anchorMat.rows

\* variant: a correlation of exactly 0.6 is accepted
MatchAcceptedOrEqual(maxVal) == maxVal >= MATCH_THRESHOLD

\* if (minMax.maxVal > 0.6)
MatchAccepted(maxVal) == maxVal > MATCH_THRESHOLD

\* trackAnchor(fullFrameMat), with the anchorRect that processFrame closed
\* over; match is what OpenCV does on this call: match.fails, a CV call
\* throws; match.maxVal, the best correlation; match.last, its location
trackAnchor(match, cols, rows) ==
    IF anchorMat = NoMat \/ closureAnchorRect = NoRect
    THEN UNCHANGED <<trackingOffset, isTrackingLost>>
    \* catch (e) { console.error("Tracking failed", e); }
    ELSE IF match.fails \/ ~TemplateFits(closureAnchorRect, cols, rows)
    THEN UNCHANGED <<trackingOffset, isTrackingLost>>
    ELSE IF MatchAccepted(match.maxVal)
    THEN /\ trackingOffset' =
               [x |-> FoundPosition(closureAnchorRect, match, cols, rows).x
                          - closureAnchorRect.x,
                y |-> FoundPosition(closureAnchorRect, match, cols, rows).y
                          - closureAnchorRect.y]
         /\ isTrackingLost' = FALSE
    ELSE /\ isTrackingLost' = TRUE
         /\ UNCHANGED trackingOffset

\* no OpenCV outcome is needed: the frame is not tracked
NoMatch == [fails |-> FALSE, maxVal |-> 0, last |-> FALSE]

\* the scoring block of processFrame, after trackAnchor: EMA smoothing, then
\* processLogic with video.currentTime
scoreFrame(rawScore) ==
    IF ~isTrackingLost' /\ startRefMat # NoMat /\ Len(triggerSteps) > 0
      THEN /\ signalState' =
                 [raw        |-> rawScore,
                  smooth     |-> EMA(rawScore, signalState.prevSmooth),
                  prevSmooth |-> EMA(rawScore, signalState.prevSmooth)]
           /\ processLogic(EMA(rawScore, signalState.prevSmooth), videoTime)
      ELSE /\ UNCHANGED <<signalState, logicVars, cycles>>
           /\ notice' = NoNotice

\* now - lastProcessTime.current in a callback dt ms after the last one
Elapsed(dt) == Min(sinceProcess + dt, ClockCap)

\* if (isAiReady && poseRef.current && mode === 'running' && !video.paused)
\*   if (now - lastProcessTime.current > 66)
PoseGateOpen(dt) ==
    isAiReady /\ mode = "running" /\ ~paused /\ Elapsed(dt) > POSE_GATE

\* if (!isCvReady || video.paused || now - lastProcessTime.current < 50)
Throttled(dt) == ~isCvReady \/ paused \/ Elapsed(dt) < FRAME_GATE

\* one call of processFrame, dt ms after the last one: the pose feed (pose
\* is what MediaPipe will hand to onPoseResults for this image), the
\* throttle gate, then tracking and scoring (match, rawScore: what OpenCV
\* finds on this frame)
animationFrame(dt, rawScore, match, pose) ==
    /\ poseResults' = IF PoseGateOpen(dt) THEN pose ELSE poseResults
    /\ sincePose' = IF PoseGateOpen(dt) THEN 0
                    ELSE Min(sincePose + dt, ClockCap)
    /\ IF Throttled(dt)
       THEN /\ sinceProcess' = Elapsed(dt)
            /\ notice' = NoNotice
            /\ UNCHANGED <<signalState, logicVars, cycles, trackingOffset,
                           isTrackingLost>>
       ELSE /\ sinceProcess' = 0
            /\ trackAnchor(match, VideoWidth, VideoHeight)
            /\ scoreFrame(rawScore)
    /\ UNCHANGED <<videoVars, propVars, uiVars, startRefMat, currentAction,
                   aiState, anchorRect, anchorMat, closureAnchorRect,
                   interrupted, scoreCall, isCvReady, isAiReady,
                   refreshInterval, toolVars>>

\* one pass of processFrame that gets through the throttle gate, FRAME_GATE
\* ms after the last one, on a frame whose tracking outcome is match and
\* whose change score is rawScore
trackedFrame(rawScore, match) ==
    /\ ~paused
    /\ isCvReady
    /\ animationFrame(FRAME_GATE, rawScore, match, NoPose)

processFrame(rawScore) == trackedFrame(rawScore, NoMatch)

(***************************************************************************)
(* AI action recognition: onPoseResults.  Landmark coordinates and          *)
(* velocities are in 1/100000 of the frame.                                 *)
(***************************************************************************)
Abs(v) == IF v < 0 THEN -v ELSE v

\* the integer square root
ISqrt(n) == CHOOSE r \in 0..n : r * r <= n /\ (r + 1) * (r + 1) > n

\* Math.hypot(dx, dy)
Hypot(dx, dy) ==
    IF dy = 0 THEN Abs(dx)
    ELSE IF dx = 0 THEN Abs(dy)
    ELSE ISqrt(dx * dx + dy * dy)

\* (vel * 0.7) + (instant * 0.3)
SmoothVelocity(vel, instant) == (7 * vel + 3 * instant) \div 10

\* avgVel > reachThreshold
Fast(avgVel) == avgVel > REACH_THRESHOLD

\* the action heuristic of onPoseResults
Action(avgVel, avgDist) ==
    IF avgVel < MOVE_THRESHOLD THEN "IDLE"
    ELSE IF avgDist > REACH_EXTENSION /\ Fast(avgVel) THEN "TRANSPORT"
    ELSE "OPERATION"

\* lVel, rVel: the wrist's distance from its last position, 0 without one
InstantVelocity(wrist, last) ==
    IF aiState.lastPos.known
    THEN Hypot(wrist.x - last.x, wrist.y - last.y)
    ELSE 0

\* avgDist: the mean distance of the wrists from the nose
Extension(results) ==
    (Hypot(results.leftWrist.x - results.nose.x,
           results.leftWrist.y - results.nose.y)
     + Hypot(results.rightWrist.x - results.nose.x,
             results.rightWrist.y - results.nose.y)) \div 2

\* aiState.current after onPoseResults(results), results.poseLandmarks set
NextAiState(results) ==
    [leftHandVel  |-> SmoothVelocity(aiState.leftHandVel,
                          InstantVelocity(results.leftWrist,
                                          aiState.lastPos.left)),
     rightHandVel |-> SmoothVelocity(aiState.rightHandVel,
                          InstantVelocity(results.rightWrist,
                                          aiState.lastPos.right)),
     lastPos      |-> [known |-> TRUE, left |-> results.leftWrist,
                       right |-> results.rightWrist]]

\* onPoseResults(results), the callback of MediaPipe Pose
onPoseResults ==
    /\ poseResults.pending
    /\ poseResults' = [poseResults EXCEPT !.pending = FALSE]
    /\ IF ~poseResults.poseLandmarks
       THEN UNCHANGED <<aiState, currentAction>>
       ELSE /\ aiState' = NextAiState(poseResults)
            /\ currentAction' =
                  Action((aiState'.leftHandVel + aiState'.rightHandVel) \div 2,
                         Extension(poseResults))
    /\ notice' = NoNotice
    /\ UNCHANGED <<videoVars, propVars, uiVars, startRefMat, signalState,
                   logicVars, trackVars, cycles, interrupted, scoreCall, gateVars, toolVars>>

(***************************************************************************)
(* The <video muted loop> element and the transport controls.               *)
(***************************************************************************)
\* playback: currentTime advances; the loop attribute restarts it at 0
VideoAdvance ==
    /\ ~paused
    /\ videoTime' = IF videoTime + StepMs >= duration THEN 0
                    ELSE videoTime + StepMs
    /\ interrupted' = (interrupted \/ videoTime + StepMs >= duration)
    /\ notice' = NoNotice
    /\ UNCHANGED <<paused, duration, propVars, uiVars, engineVars, aiState,
                   trackVars, cycles, scoreCall,
                   poseResults, gateVars, toolVars>>

\* togglePlay: if (video.paused) video.play(); else video.pause(); play()
\* is rejected while the element has no source
togglePlay ==
    /\ paused' = IF duration = NoDuration THEN TRUE ELSE ~paused
    /\ notice' = NoNotice
    /\ UNCHANGED <<videoTime, duration, propVars, uiVars, engineVars, aiState,
                   trackVars, cycles, interrupted, scoreCall,
                   poseResults, gateVars, toolVars>>

\* handleSeek and the seekRequest effect: video.currentTime = time
handleSeek(time) ==
    /\ videoTime' = time
    /\ interrupted' = (interrupted \/ time < videoTime)
    /\ notice' = NoNotice
    /\ UNCHANGED <<paused, duration, propVars, uiVars, engineVars, aiState,
                   trackVars, cycles, scoreCall,
                   poseResults, gateVars, toolVars>>

\* the ARM SYSTEM / STOP & EDIT button; setMode re-creates processFrame,
\* which then closes over the current anchorRect
ArmStopClick ==
    IF mode = "setup" THEN
        IF Len(triggerSteps) = 0 \/ ~refImagesStart
        THEN \* alert(...); return
             /\ notice' = IF Len(triggerSteps) = 0
                          THEN Alert("Please draw a Work Zone")
                          ELSE Alert("Please capture Empty State Reference")
             /\ UNCHANGED <<videoVars, propVars, uiVars, engineVars, aiState,
                            trackVars, cycles, interrupted, scoreCall,
                   poseResults, gateVars, toolVars>>
        ELSE /\ mode' = "running"
             /\ paused' = FALSE             \* video.play()
             /\ closureAnchorRect' = anchorRect
             /\ notice' = NoNotice
             /\ UNCHANGED <<videoTime, duration, propVars, setupSubMode,
                            refImagesStart, drawingRect, dragStart,
                            draggingStepId, dragOffset, engineVars, aiState,
                            anchorRect, anchorMat, trackingOffset,
                            isTrackingLost, cycles, interrupted, scoreCall,
                   poseResults, gateVars, toolVars>>
    ELSE
        /\ mode' = "setup"
        /\ paused' = TRUE                   \* video.pause()
        /\ logicState' = "IDLE"
        /\ interrupted' = TRUE
        /\ closureAnchorRect' = anchorRect
        /\ notice' = NoNotice
        /\ UNCHANGED <<videoTime, duration, propVars, setupSubMode,
                       refImagesStart, drawingRect, dragStart, draggingStepId,
                       dragOffset, startRefMat, signalState, cycleStartTime,
                       cooldownTimer, visualState, currentAction, aiState,
                       anchorRect, anchorMat, trackingOffset, isTrackingLost,
                       cycles, scoreCall,
                   poseResults, gateVars, toolVars>>

(***************************************************************************)
(* The setup tools: zone drawing and dragging, reference capture, and the  *)
(* App-level handlers that replace the zone list or the video.             *)
(***************************************************************************)
\* isPointInRect(point, rect)
isPointInRect(point, rect) ==
    /\ point.x >= rect.x /\ point.x <= rect.x + rect.width
    /\ point.y >= rect.y /\ point.y <= rect.y + rect.height

\* the "1. Anchor" button, rendered in setup mode: setSetupSubMode('anchor')
AnchorToolClick ==
    /\ mode = "setup"
    /\ setupSubMode' = "anchor"
    /\ notice' = NoNotice
    /\ UNCHANGED <<videoVars, propVars, mode, refImagesStart, drawingRect,
                   dragStart, draggingStepId, dragOffset, engineVars, aiState,
                   trackVars, cycles, interrupted, scoreCall,
                   poseResults, gateVars, toolVars>>

\* the "2. Zone" button, rendered in setup mode: setSetupSubMode('start_roi')
ZoneToolClick ==
    /\ mode = "setup"
    /\ setupSubMode' = "start_roi"
    /\ notice' = NoNotice
    /\ UNCHANGED <<videoVars, propVars, mode, refImagesStart, drawingRect,
                   dragStart, draggingStepId, dragOffset, engineVars, aiState,
                   trackVars, cycles, interrupted, scoreCall,
                   poseResults, gateVars, toolVars>>

\* handleMouseDown, pt = mapScreenToVideo(e.clientX, e.clientY, video)
handleMouseDown(pt) ==
    /\ IF setupSubMode # "none" THEN
           /\ dragStart' = pt
           /\ drawingRect' = [x |-> pt.x, y |-> pt.y, width |-> 0, height |-> 0]
           /\ UNCHANGED <<draggingStepId, dragOffset, refImagesStart>>
       ELSE IF /\ mode = "setup"
               /\ Len(triggerSteps) > 0
               /\ isPointInRect(pt, triggerSteps[1].rect) THEN
           /\ draggingStepId' = triggerSteps[1].id
           /\ dragOffset' = [x |-> pt.x - triggerSteps[1].rect.x,
                             y |-> pt.y - triggerSteps[1].rect.y]
           /\ refImagesStart' = FALSE
           /\ UNCHANGED <<dragStart, drawingRect>>
       ELSE UNCHANGED <<dragStart, drawingRect, draggingStepId, dragOffset,
                        refImagesStart>>
    /\ notice' = NoNotice
    /\ UNCHANGED <<videoVars, propVars, mode, setupSubMode, engineVars,
                   aiState, trackVars, cycles, interrupted, scoreCall,
                   poseResults, gateVars, toolVars>>

\* the rect of a dragged step: { ...s.rect, x: pt.x - dragOffset.x, ... }
MovedStep(step, pt) ==
    IF step.id = draggingStepId
    THEN [step EXCEPT !.rect.x = pt.x - dragOffset.x,
                      !.rect.y = pt.y - dragOffset.y]
    ELSE step

\* handleMouseMove; onTriggerStepsChange hands processFrame a new zone list,
\* so it is re-created and closes over the current anchorRect
handleMouseMove(pt) ==
    /\ IF draggingStepId # NoId THEN
           /\ triggerSteps' = [i \in 1..Len(triggerSteps) |->
                                   MovedStep(triggerSteps[i], pt)]
           /\ closureAnchorRect' = anchorRect
           /\ UNCHANGED drawingRect
       ELSE IF dragStart # NoPoint THEN
           /\ drawingRect' =
                 [x      |-> IF pt.x < dragStart.x THEN pt.x ELSE dragStart.x,
                  y      |-> IF pt.y < dragStart.y THEN pt.y ELSE dragStart.y,
                  width  |-> Max(pt.x - dragStart.x, dragStart.x - pt.x),
                  height |-> Max(pt.y - dragStart.y, dragStart.y - pt.y)]
           /\ UNCHANGED <<triggerSteps, closureAnchorRect>>
       ELSE UNCHANGED <<triggerSteps, drawingRect, closureAnchorRect>>
    /\ notice' = NoNotice
    /\ UNCHANGED <<videoVars, sensitivity, taktTime, mode, setupSubMode,
                   refImagesStart, dragStart, draggingStepId, dragOffset,
                   engineVars, aiState, anchorRect, anchorMat, trackingOffset,
                   isTrackingLost, cycles, interrupted, scoreCall,
                   poseResults, gateVars, toolVars>>

\* handleMouseUp: ends a drag, or turns the drawn rectangle into the work
\* zone or the anchor box; anchorRect is no dependency of processFrame, so a
\* new anchor box leaves the frame loop with the one it closed over
handleMouseUp ==
    /\ IF draggingStepId # NoId THEN
           /\ draggingStepId' = NoId
           /\ UNCHANGED <<triggerSteps, refImagesStart, anchorRect, anchorMat,
                          closureAnchorRect>>
       ELSE IF /\ dragStart # NoPoint /\ drawingRect # NoRect
               /\ drawingRect.width > MIN_DRAW_WIDTH * PX
               /\ setupSubMode = "start_roi" THEN
           /\ triggerSteps' = <<Step(drawingRect)>>
           /\ refImagesStart' = FALSE
           /\ closureAnchorRect' = anchorRect
           /\ UNCHANGED <<draggingStepId, anchorRect, anchorMat>>
       ELSE IF /\ dragStart # NoPoint /\ drawingRect # NoRect
               /\ drawingRect.width > MIN_DRAW_WIDTH * PX
               /\ setupSubMode = "anchor" THEN
           /\ anchorRect' = drawingRect
           /\ anchorMat' = NoMat
           /\ UNCHANGED <<triggerSteps, refImagesStart, draggingStepId,
                          closureAnchorRect>>
       ELSE UNCHANGED <<triggerSteps, refImagesStart, draggingStepId,
                        anchorRect, anchorMat, closureAnchorRect>>
    /\ dragStart' = NoPoint
    /\ drawingRect' = NoRect
    /\ setupSubMode' = "none"
    /\ notice' = NoNotice
    /\ UNCHANGED <<videoVars, sensitivity, taktTime, mode, dragOffset,
                   engineVars, aiState, trackingOffset, isTrackingLost,
                   cycles, interrupted, scoreCall,
                   poseResults, gateVars, toolVars>>

\* captureReference(target), the lock and camera buttons rendered in setup
\* mode; cv is what the browser and OpenCV do on this call: "ok", "frame"
\* (reading the frame throws) or "blur" (the grayscale / blur step throws)
captureReference(target, cv) ==
    /\ mode = "setup"
    /\ IF cv = "frame" \/ duration = NoDuration THEN
           /\ notice' = Alert("Capture failed")
           /\ UNCHANGED <<startRefMat, refImagesStart, anchorMat>>
       ELSE IF target = "anchor" THEN
           IF anchorRect = NoRect THEN
               /\ notice' = Alert("Draw anchor box first")
               /\ UNCHANGED <<startRefMat, refImagesStart, anchorMat>>
           ELSE IF extractRoiMat(anchorRect, VideoWidth, VideoHeight) = NoMat
           THEN
               /\ notice' = NoNotice
               /\ UNCHANGED <<startRefMat, refImagesStart, anchorMat>>
           ELSE
               /\ anchorMat' = extractRoiMat(anchorRect, VideoWidth,
                                             VideoHeight)
               /\ notice' = Status("Anchor Captured. Tracking Active.")
               /\ UNCHANGED <<startRefMat, refImagesStart>>
       ELSE \* target = "start"
           IF Len(triggerSteps) = 0 THEN
               /\ notice' = Alert("Draw start zone first")
               /\ UNCHANGED <<startRefMat, refImagesStart, anchorMat>>
           ELSE IF extractRoiMat(triggerSteps[1].rect, VideoWidth,
                                 VideoHeight) = NoMat THEN
               /\ notice' = NoNotice
               /\ UNCHANGED <<startRefMat, refImagesStart, anchorMat>>
           ELSE IF cv = "blur" THEN
               /\ notice' = Alert("Capture failed")
               /\ UNCHANGED <<startRefMat, refImagesStart, anchorMat>>
           ELSE
               /\ startRefMat' = extractRoiMat(triggerSteps[1].rect,
                                               VideoWidth, VideoHeight)
               /\ refImagesStart' = TRUE
               /\ notice' =
                     Status("Reference START Captured (Background Model Set)")
               /\ UNCHANGED anchorMat
    /\ UNCHANGED <<videoVars, propVars, mode, setupSubMode, drawingRect,
                   dragStart, draggingStepId, dragOffset, signalState,
                   logicVars, currentAction, aiState, anchorRect,
                   trackingOffset, isTrackingLost, closureAnchorRect, cycles,
                   interrupted, scoreCall,
                   poseResults, gateVars, toolVars>>

\* App.handleLoadProject: the file's takt time, sensitivity, cycles and zone
\* list replace the current ones
handleLoadProject(data) ==
    /\ taktTime' = data.taktTime
    /\ sensitivity' = data.sensitivity
    /\ cycles' = data.cycles
    /\ triggerSteps' = data.triggerSteps
    /\ closureAnchorRect' = anchorRect
    /\ notice' = Status("Project Imported successfully")
    /\ UNCHANGED <<videoVars, uiVars, engineVars, aiState, anchorRect,
                   anchorMat, trackingOffset, isTrackingLost, interrupted,
                   scoreCall, poseResults, gateVars, toolVars>>

\* App.clearAllSteps / removeStep of the only zone
clearAllSteps ==
    /\ triggerSteps' = <<>>
    /\ closureAnchorRect' = anchorRect
    /\ notice' = NoNotice
    /\ UNCHANGED <<videoVars, sensitivity, taktTime, uiVars, engineVars,
                   aiState, anchorRect, anchorMat, trackingOffset,
                   isTrackingLost, cycles, interrupted, scoreCall,
                   poseResults, gateVars, toolVars>>

\* visualState.current = (Thai for "ready to work")
ResetText == "Phrom Thamngan"

\* variant: the reset leaves the tracking offset alone
KeptOffset == trackingOffset

\* trackingOffset.current = {x: 0, y: 0}
ResetOffset == [x |-> 0, y |-> 0]

\* the Reset State effect on [videoSrc] and the <video> element loading the
\* new source (NoDuration: no source); isTrackingLost and cooldownTimer are
\* not among the refs it resets.  processFrame is re-created with the zone
\* list, before the effect clears anchorRect, and once more only if the
\* effect changes mode
resetState(newDuration) ==
    /\ mode' = "setup"
    /\ setupSubMode' = "none"
    /\ refImagesStart' = FALSE
    /\ logicState' = "IDLE"
    /\ signalState' = ZeroSignal
    /\ visualState' = ResetText
    /\ cycleStartTime' = 0
    /\ startRefMat' = NoMat
    /\ anchorMat' = NoMat
    /\ anchorRect' = NoRect
    /\ trackingOffset' = ResetOffset
    /\ closureAnchorRect' = IF mode = "running" THEN NoRect ELSE anchorRect
    /\ videoTime' = 0
    /\ paused' = TRUE
    /\ duration' = newDuration
    /\ interrupted' = TRUE
    /\ notice' = IF newDuration # NoDuration
                 THEN Status("System Reset. Please configure zones.")
                 ELSE NoNotice
    /\ UNCHANGED <<drawingRect, dragStart, draggingStepId, dragOffset,
                   cooldownTimer, currentAction, aiState, isTrackingLost,
                   scoreCall, poseResults, gateVars, toolVars>>

\* App.handleFileUpload: setVideoSrc(url); setCycles([]); setTriggerSteps([])
handleFileUpload(newDuration) ==
    /\ cycles' = <<>>
    /\ triggerSteps' = <<>>
    /\ resetState(newDuration)
    /\ UNCHANGED <<sensitivity, taktTime>>

\* App.handleNewProject, confirmed, while a video is loaded: setCycles([]);
\* setTriggerSteps([]); setVideoSrc(null)
handleNewProject ==
    /\ duration # NoDuration
    /\ cycles' = <<>>
    /\ triggerSteps' = <<>>
    /\ resetState(NoDuration)
    /\ UNCHANGED <<sensitivity, taktTime>>

(***************************************************************************)
(* Engine specification: a configured session (zone drawn, reference        *)
(* captured) driven by frames, playback, seeks and the ARM/STOP button.     *)
(***************************************************************************)
\* the takt time of the engine specification: 2.0 s, so that cycles of
\* 1.5 s and 2.0 s are 'ok' and longer ones 'over'
EngineTaktTime == 4 * StepMs

\* the zone of the engine specification
EngineZone == [x |-> 10, y |-> 10, width |-> 20, height |-> 20]

\* smoothed scores the engine specification visits: below, at and above
\* lowThreshold (1380) and highThreshold (2300) of the default sensitivity
ScoreLevels == {0, 1200, 1380, 1600, 1900, 2300, 2500}

\* the raw scores in [0,1] that take the smoothed score from prevSmooth to
\* one of ScoreLevels without rounding
RawScores(prevSmooth) ==
    {r \in {EMA_ALPHA_INV * l - (EMA_ALPHA_INV - 1) * prevSmooth :
                l \in ScoreLevels} : r >= 0 /\ r <= 10000}

\* seek targets: the start, 1.0 s and the last sampled timestamp
SeekTimes == {0, 2 * StepMs, duration - StepMs}

\* a session with the zone drawn and its reference captured, not yet armed
ConfiguredSession ==
    /\ videoTime = 0
    /\ paused = TRUE
    /\ duration = EngineSteps * StepMs
    /\ triggerSteps = <<Step(EngineZone)>>
    /\ sensitivity = DefaultSensitivity
    /\ taktTime = EngineTaktTime
    /\ mode = "setup"
    /\ setupSubMode = "none"
    /\ refImagesStart = TRUE
    /\ drawingRect = NoRect
    /\ dragStart = NoPoint
    /\ draggingStepId = NoId
    /\ dragOffset = [x |-> 0, y |-> 0]
    /\ startRefMat = extractRoiMat(EngineZone, VideoWidth, VideoHeight)
    /\ signalState = ZeroSignal
    /\ logicState = "IDLE"
    /\ cycleStartTime = 0
    /\ cooldownTimer = 0
    /\ visualState = ResetText
    /\ currentAction = "IDLE"
    /\ Untracked
    /\ cycles = <<>>
    /\ notice = NoNotice
    /\ interrupted = FALSE

InitEngine ==
    /\ ConfiguredSession
    /\ aiState = InitialAiState
    /\ scoreCall = "none"
    /\ poseResults = NoPose
    /\ GateIdle
    /\ ToolsIdle

\* the current frame's zone and the reference have the same size, so that
\* cv.absdiff does not throw
ComparableAt(offset) ==
    /\ startRefMat # NoMat /\ Len(triggerSteps) > 0
    /\ calculateChangeScore(startRefMat, triggerSteps[1].rect,
                            offset, VideoWidth, VideoHeight,
                            [fails |-> FALSE, share |-> 2]).value > 0

Comparable == ScoringEnabled /\ ComparableAt(trackingOffset)

\* what calculateChangeScore returns for the frame's pixels
FrameScores == IF Comparable THEN RawScores(signalState.prevSmooth) ELSE {0}

Frame == \E rawScore \in FrameScores : processFrame(rawScore)

Seek == \E time \in SeekTimes : handleSeek(time)

\* the engine specification follows a session up to its MaxCycles-th Cycle
Live == Len(cycles) < MaxCycles

Next ==
    \/ Live /\ Frame
    \/ Live /\ VideoAdvance
    \/ Live /\ togglePlay
    \/ Live /\ Seek
    \/ Live /\ ArmStopClick

Spec == InitEngine /\ [][Next]_vars

(***************************************************************************)
(* The session after its first Cycle, on a video of DurationSteps steps:    *)
(* the state a configured session reaches by ARM, a trigger at 0 and a     *)
(* completion at 1.5 s (FirstCycleEmitted, reached under Spec, is the same  *)
(* state up to the video's duration).  NextAfter follows it up to the       *)
(* Cycle after MaxCycles.                                                   *)
(***************************************************************************)
FirstCycle ==
    [startTime |-> 0, endTime |-> 3 * StepMs, duration |-> 3 * StepMs,
     status |-> "ok", aiLabel |-> "Operation"]

InitAfterCycle ==
    /\ videoTime = 3 * StepMs
    /\ paused = FALSE
    /\ duration = DurationSteps * StepMs
    /\ triggerSteps = <<Step(EngineZone)>>
    /\ sensitivity = DefaultSensitivity
    /\ taktTime = EngineTaktTime
    /\ mode = "running"
    /\ setupSubMode = "none"
    /\ refImagesStart = TRUE
    /\ drawingRect = NoRect
    /\ dragStart = NoPoint
    /\ draggingStepId = NoId
    /\ dragOffset = [x |-> 0, y |-> 0]
    /\ startRefMat = extractRoiMat(EngineZone, VideoWidth, VideoHeight)
    /\ signalState = [raw |-> 480, smooth |-> 1200, prevSmooth |-> 1200]
    /\ logicState = "COOLDOWN"
    /\ cycleStartTime = 0
    /\ cooldownTimer = 3 * StepMs + COOLDOWN_TIME
    /\ visualState = "Cycle Finished"
    /\ currentAction = "IDLE"
    /\ aiState = InitialAiState
    /\ Untracked
    /\ cycles = <<FirstCycle>>
    /\ notice = Status("Cycle Logged")
    /\ interrupted = FALSE
    /\ scoreCall = "none"
    /\ poseResults = NoPose
    /\ GateIdle
    /\ ToolsIdle

\* InitAfterCycle as a state of Spec, the video's duration aside
FirstCycleEmitted ==
    /\ videoTime = 3 * StepMs /\ ~paused /\ mode = "running"
    /\ signalState = [raw |-> 480, smooth |-> 1200, prevSmooth |-> 1200]
    /\ logicState = "COOLDOWN" /\ cycleStartTime = 0
    /\ cooldownTimer = 3 * StepMs + COOLDOWN_TIME
    /\ visualState = "Cycle Finished"
    /\ cycles = <<FirstCycle>> /\ ~interrupted

LiveAfter == Len(cycles) < MaxCycles + 1

NextAfter ==
    \/ LiveAfter /\ Frame
    \/ LiveAfter /\ VideoAdvance
    \/ LiveAfter /\ togglePlay
    \/ LiveAfter /\ Seek
    \/ LiveAfter /\ ArmStopClick

SpecAfter == InitAfterCycle /\ [][NextAfter]_vars

(***************************************************************************)
(* The session just after STOP & EDIT: the state a configured session       *)
(* reaches by ARM, two frames that take the smoothed score to 0.19 and to   *)
(* 0.25 (a trigger at 0) and the stop click; a state of Spec.  Every        *)
(* setup-mode state that follows lies between a stop and the next arm.      *)
(***************************************************************************)
InitStopped ==
    /\ videoTime = 0
    /\ paused = TRUE
    /\ duration = EngineSteps * StepMs
    /\ triggerSteps = <<Step(EngineZone)>>
    /\ sensitivity = DefaultSensitivity
    /\ taktTime = EngineTaktTime
    /\ mode = "setup"
    /\ setupSubMode = "none"
    /\ refImagesStart = TRUE
    /\ drawingRect = NoRect
    /\ dragStart = NoPoint
    /\ draggingStepId = NoId
    /\ dragOffset = [x |-> 0, y |-> 0]
    /\ startRefMat = extractRoiMat(EngineZone, VideoWidth, VideoHeight)
    /\ signalState = [raw |-> 4900, smooth |-> 2500, prevSmooth |-> 2500]
    /\ logicState = "IDLE"
    /\ cycleStartTime = 0
    /\ cooldownTimer = 0
    /\ visualState = "WORK STARTED"
    /\ currentAction = "IDLE"
    /\ aiState = InitialAiState
    /\ Untracked
    /\ cycles = <<>>
    /\ notice = NoNotice
    /\ interrupted = TRUE
    /\ scoreCall = "none"
    /\ poseResults = NoPose
    /\ GateIdle
    /\ ToolsIdle

SpecStopped == InitStopped /\ [][Next]_vars

(***************************************************************************)
(* Setup specification: the component after construction with a video      *)
(* loaded, driven by the mouse, the setup tools, the App-level handlers,    *)
(* the transport and the main loop.                                         *)
(***************************************************************************)
\* the mouse positions: points of the video's diagonal
Pts == {[x |-> k * GridStep, y |-> k * GridStep] : k \in 0..GridPoints}

SetupDuration == 4 * StepMs

\* the zone of the project file
ProjectZone ==
    [x |-> GridStep, y |-> GridStep, width |-> GridStep, height |-> GridStep]

\* smoothed scores the setup specification steers to: 0.8 apart, so that a
\* raw score of 0 walks down them
SetupLevels == {0, 1280, 1600, 2000, 2500}

SetupScores ==
    IF Comparable
    THEN {r \in {EMA_ALPHA_INV * l - (EMA_ALPHA_INV - 1) * signalState.prevSmooth :
                    l \in SetupLevels} : r >= 0 /\ r <= 10000}
    ELSE {0}

SetupFrame == \E rawScore \in SetupScores : processFrame(rawScore)

ProjectFiles ==
    {[taktTime |-> EngineTaktTime, sensitivity |-> DefaultSensitivity,
      cycles |-> <<>>, triggerSteps |-> <<Step(ProjectZone)>>]}

InitSetup ==
    /\ videoTime = 0
    /\ paused = TRUE
    /\ duration = SetupDuration
    /\ triggerSteps = <<>>
    /\ sensitivity = DefaultSensitivity
    /\ taktTime = EngineTaktTime
    /\ mode = "setup"
    /\ setupSubMode = "none"
    /\ refImagesStart = FALSE
    /\ drawingRect = NoRect
    /\ dragStart = NoPoint
    /\ draggingStepId = NoId
    /\ dragOffset = [x |-> 0, y |-> 0]
    /\ startRefMat = NoMat
    /\ signalState = ZeroSignal
    /\ logicState = "IDLE"
    /\ cycleStartTime = 0
    /\ cooldownTimer = 0
    /\ visualState = ResetText
    /\ currentAction = "IDLE"
    /\ aiState = InitialAiState
    /\ Untracked
    /\ cycles = <<>>
    /\ notice = NoNotice
    /\ interrupted = FALSE
    /\ scoreCall = "none"
    /\ poseResults = NoPose
    /\ GateIdle
    /\ ToolsIdle

\* the mouse button goes down at the video's top-left corner
MouseDown == handleMouseDown([x |-> 0, y |-> 0])
MouseMove == \E pt \in Pts : handleMouseMove(pt)
LoadProject == \E data \in ProjectFiles : handleLoadProject(data)
FileUpload == handleFileUpload(SetupDuration)
\* the camera button, with every outcome of the browser and OpenCV
CaptureStart == \E cv \in {"ok", "frame", "blur"} : captureReference("start", cv)

NextSetup ==
    \/ Live /\ ZoneToolClick
    \/ Live /\ MouseDown
    \/ Live /\ MouseMove
    \/ Live /\ handleMouseUp
    \/ Live /\ CaptureStart
    \/ Live /\ LoadProject
    \/ Live /\ clearAllSteps
    \/ Live /\ FileUpload
    \/ Live /\ ArmStopClick
    \/ Live /\ togglePlay
    \/ Live /\ VideoAdvance
    \/ Live /\ SetupFrame

SpecSetup == InitSetup /\ [][NextSetup]_vars

(***************************************************************************)
(* Scenario specification: an armed session played once, forward, with a   *)
(* frame processed every FRAME_GATE ms, on a raw score that is 0, then 0.5  *)
(* from 1.0 s to 3.0 s, then 0.  The sensitivity is the one that makes      *)
(* highThreshold 0.2; the takt time and the phase of the frames against     *)
(* the video clock are drawn from sets.                                     *)
(***************************************************************************)
\* 0.35 - 7.5 * 0.02 = 0.2
ScenarioSensitivity == (3500 - 2000) \div 20

ScenarioTaktTimes == {1500, 2000, 2100, 2200, 2250, 2300, 3000}

\* video time of the first processed frame
ScenarioPhases == {0, 10, 20, 30, 40}

ScenarioRise == MIN_CYCLE_TIME
ScenarioFall == 3 * MIN_CYCLE_TIME
ScenarioHigh == 10000 \div 2

\* the raw score at video time t; at the two edges the frame may see either
\* value
ScenarioRaw(t) ==
    IF t = ScenarioRise \/ t = ScenarioFall THEN {0, ScenarioHigh}
    ELSE IF t > ScenarioRise /\ t < ScenarioFall THEN {ScenarioHigh}
    ELSE {0}

InitScenario ==
    /\ videoTime \in ScenarioPhases
    /\ paused = FALSE
    /\ duration = (ScenarioFrames + 1) * FRAME_GATE
    /\ triggerSteps = <<Step(EngineZone)>>
    /\ sensitivity = ScenarioSensitivity
    /\ taktTime \in ScenarioTaktTimes
    /\ mode = "running"
    /\ setupSubMode = "none"
    /\ refImagesStart = TRUE
    /\ drawingRect = NoRect
    /\ dragStart = NoPoint
    /\ draggingStepId = NoId
    /\ dragOffset = [x |-> 0, y |-> 0]
    /\ startRefMat = extractRoiMat(EngineZone, VideoWidth, VideoHeight)
    /\ signalState = ZeroSignal
    /\ logicState = "IDLE"
    /\ cycleStartTime = 0
    /\ cooldownTimer = 0
    /\ visualState = ResetText
    /\ currentAction = "IDLE"
    /\ aiState = InitialAiState
    /\ Untracked
    /\ cycles = <<>>
    /\ notice = NoNotice
    /\ interrupted = FALSE
    /\ scoreCall = "none"
    /\ poseResults = NoPose
    /\ GateIdle
    /\ ToolsIdle

\* one pass of processFrame at video time videoTime, then FRAME_GATE ms of
\* playback up to the next pass
ScenarioStep ==
    /\ ~paused
    /\ videoTime + FRAME_GATE < duration
    /\ UNCHANGED trackVars
    /\ \E rawScore \in ScenarioRaw(videoTime) : scoreFrame(rawScore)
    /\ videoTime' = videoTime + FRAME_GATE
    /\ UNCHANGED <<paused, duration, propVars, uiVars, startRefMat,
                   currentAction, aiState, interrupted, scoreCall,
                   poseResults, gateVars, toolVars>>

NextScenario == ScenarioStep

SpecScenario == InitScenario /\ [][NextScenario]_vars

(***************************************************************************)
(* Scorer specification: calculateChangeScore applied to references,       *)
(* zones, tracking offsets and OpenCV outcomes drawn from bounded sets,     *)
(* on a frame of ScoreCols x ScoreRows.                                     *)
(***************************************************************************)
\* an 8 x 6 pixel frame
ScoreCols == 8 * PX
ScoreRows == 6 * PX

\* zones left of, inside, across the right edge of and right of the frame,
\* with fractional, degenerate and negative sizes
ScoreRects ==
    [x : {-5, 0, 9, 13, 18}, y : {0, 7}, width : {-4, 3, 5, 8},
     height : {2, 6, 7}]

\* no reference, and references of 2 x 3 and 4 x 3 pixels, live or deleted
ScoreRefMats ==
    {NoMat} \cup
    {[NoMat EXCEPT !.cols = c, !.rows = 3 * PX, !.deleted = d] :
         c \in {2 * PX, 4 * PX}, d \in BOOLEAN}

ScoreOffsets == {[x |-> dx, y |-> 0] : dx \in {-2, 0, 4}}

CvOutcomes == [fails : BOOLEAN, share : 0..2]

Pending == [kind |-> "pending", value |-> 0]

InitScore ==
    /\ ConfiguredSession
    /\ aiState = InitialAiState
    /\ poseResults = NoPose
    /\ GateIdle
    /\ ToolsIdle
    /\ scoreCall \in [refMat : ScoreRefMats, rect : ScoreRects,
                      offset : ScoreOffsets, cv : CvOutcomes,
                      result : {Pending}]

\* the call returns to (or throws into) its caller
ScoreCallReturn ==
    /\ scoreCall.result = Pending
    /\ scoreCall' =
          [scoreCall EXCEPT !.result =
              calculateChangeScore(scoreCall.refMat, scoreCall.rect,
                                   scoreCall.offset, ScoreCols, ScoreRows,
                                   scoreCall.cv)]
    /\ UNCHANGED <<videoVars, propVars, uiVars, engineVars, aiState,
                   trackVars, cycles, notice, interrupted, poseResults, gateVars, toolVars>>

NextScore == ScoreCallReturn

SpecScore == InitScore /\ [][NextScore]_vars

(***************************************************************************)
(* Tracking specification: the component after construction with a video    *)
(* loaded; the anchor box is drawn with the mouse and its template          *)
(* captured, the work zone arrives with a project file, and frames are      *)
(* tracked and scored at a fixed video time.                                *)
(***************************************************************************)
\* where the mouse moves to: one grid point beyond the points it goes down at
TrackPts == {[x |-> k * GridStep, y |-> k * GridStep] : k \in 0..GridPoints + 1}

\* what OpenCV does on a tracked frame: correlations below, at and above 0.6
TrackMatches ==
    [fails : BOOLEAN,
     maxVal : {MATCH_THRESHOLD - 1000, MATCH_THRESHOLD, MATCH_THRESHOLD + 1000},
     last : BOOLEAN]

\* smoothed scores the tracking specification steers to, upwards only
TrackLevels == {0, 2000, 2500}

TrackScores ==
    {r \in {EMA_ALPHA_INV * l - (EMA_ALPHA_INV - 1) * signalState.prevSmooth :
               l \in TrackLevels} : r >= 0 /\ r <= 10000}

\* the mouse is used to draw the anchor box only
TrackMouseDown ==
    /\ setupSubMode = "anchor"
    /\ \E pt \in Pts : handleMouseDown(pt)
TrackMouseMove == \E pt \in TrackPts : handleMouseMove(pt)
\* the lock button, with every outcome of the browser
CaptureAnchor == \E cv \in {"ok", "frame"} : captureReference("anchor", cv)
\* a frame; one that is scored shows the zone in full, at the tracked place
TrackFrame ==
    \E match \in TrackMatches, rawScore \in TrackScores :
        /\ trackedFrame(rawScore, match)
        /\ (~isTrackingLost' /\ startRefMat # NoMat /\ Len(triggerSteps) > 0)
              => ComparableAt(trackingOffset')

\* a drawing gesture (tool click, mouse down, moves, mouse up) is under way
Drawing == setupSubMode # "none" \/ dragStart # NoPoint

\* the anchor box is drawn while the video is paused, and the gesture is
\* finished before anything else is done
NextTrack ==
    \/ paused /\ AnchorToolClick
    \/ TrackMouseDown
    \/ TrackMouseMove
    \/ handleMouseUp
    \/ ~Drawing /\ CaptureAnchor
    \/ ~Drawing /\ CaptureStart
    \/ ~Drawing /\ LoadProject
    \/ ~Drawing /\ FileUpload
    \/ ~Drawing /\ handleNewProject
    \/ ~Drawing /\ ArmStopClick
    \/ ~Drawing /\ togglePlay
    \/ ~Drawing /\ TrackFrame

SpecTrack == InitSetup /\ [][NextTrack]_vars

(***************************************************************************)
(* Capture specification: the component after construction with a video     *)
(* loaded; zone lists arrive with project files (a zone inside the frame, a *)
(* zone across the frame's right edge, no zone), the camera button is       *)
(* clicked, and the session is armed, stopped and played.                   *)
(***************************************************************************)
\* a zone of which one pixel column lies inside the frame
EdgeZone ==
    [x |-> VideoWidth - PX, y |-> 0, width |-> GridStep, height |-> GridStep]

CaptureProjectFiles ==
    {[taktTime |-> EngineTaktTime, sensitivity |-> DefaultSensitivity,
      cycles |-> <<>>, triggerSteps |-> zones] :
         zones \in {<<>>, <<Step(ProjectZone)>>, <<Step(EdgeZone)>>}}

CaptureLoadProject == \E data \in CaptureProjectFiles : handleLoadProject(data)

NextCapture ==
    \/ CaptureLoadProject
    \/ CaptureStart
    \/ clearAllSteps
    \/ ArmStopClick
    \/ togglePlay
    \/ VideoAdvance

SpecCapture == InitSetup /\ [][NextCapture]_vars

(***************************************************************************)
(* Pose specification: onPoseResults applied to one pose sample, with the   *)
(* smoothed velocities, the last wrist positions and the sample drawn from  *)
(* bounded sets.  The wrists and the nose lie on one horizontal line.       *)
(***************************************************************************)
PoseY == REACH_EXTENSION
NoseX == REACH_EXTENSION + 10000

LeftXs  == {NoseX - REACH_EXTENSION - 2000, NoseX - REACH_EXTENSION,
            NoseX - REACH_EXTENSION + MOVE_THRESHOLD}
RightXs == {NoseX + REACH_EXTENSION, NoseX + REACH_EXTENSION + MOVE_THRESHOLD,
            NoseX + REACH_EXTENSION + 2000}

\* smoothed velocities below, at and above the two thresholds
PoseVelocities ==
    {0, MOVE_THRESHOLD, REACH_THRESHOLD, REACH_THRESHOLD + 1000}

PoseLastPos ==
    {NoLastPos} \cup
    {[known |-> TRUE, left |-> [x |-> lx, y |-> PoseY],
      right |-> [x |-> rx, y |-> PoseY]] : lx \in LeftXs, rx \in RightXs}

PoseSamples ==
    {NoPose} \cup
    {[pending |-> TRUE, poseLandmarks |-> lm,
      leftWrist |-> [x |-> lx, y |-> PoseY],
      rightWrist |-> [x |-> rx, y |-> PoseY],
      nose |-> [x |-> NoseX, y |-> PoseY]] :
         lm \in BOOLEAN, lx \in LeftXs, rx \in RightXs}

InitPose ==
    /\ ConfiguredSession
    /\ scoreCall = "none"
    /\ aiState \in [leftHandVel : PoseVelocities,
                     rightHandVel : PoseVelocities, lastPos : PoseLastPos]
    /\ poseResults \in PoseSamples \ {NoPose}
    /\ GateFeeding
    /\ ToolsIdle

NextPose == onPoseResults

SpecPose == InitPose /\ [][NextPose]_vars

(***************************************************************************)
(* Threshold specification: a configured session whose sensitivity is set   *)
(* by project files to every integer from 1 to MaxSensitivity, armed,       *)
(* stopped and played, with frames processed at video time 0.               *)
(***************************************************************************)
\* the integer sensitivities, in tenths
Sensitivities == {10 * s : s \in 1..MaxSensitivity}

ThresholdProjectFiles ==
    {[taktTime |-> EngineTaktTime, sensitivity |-> s, cycles |-> <<>>,
      triggerSteps |-> <<Step(EngineZone)>>] : s \in Sensitivities}

ThresholdLoadProject ==
    \E data \in ThresholdProjectFiles : handleLoadProject(data)

NextThreshold ==
    \/ ThresholdLoadProject
    \/ ArmStopClick
    \/ togglePlay
    \/ Frame

SpecThreshold == InitEngine /\ [][NextThreshold]_vars

(***************************************************************************)
(* Claims about the logic controller.                                       *)
(***************************************************************************)
\* a pass of processFrame that reaches processLogic
ScoredFrame == Frame /\ ScoringEnabled

Emitted == Len(cycles') = Len(cycles) + 1

ConsecutivePairs == 1..(Len(cycles) - 1)

\* C1: the Cycles handed to onCycleComplete have strictly increasing
\* startTime: cycles[i].startTime < cycles[i+1].startTime for every i.
C1_StartTimesIncrease ==
    \A i \in ConsecutivePairs : cycles[i].startTime < cycles[i + 1].startTime

\* C2: every emitted Cycle has duration = endTime - startTime and
\* duration > MIN_CYCLE_TIME; none is short, zero or negative.
C2_DurationAboveMinimum ==
    \A i \in 1..Len(cycles) :
        /\ cycles[i].duration = cycles[i].endTime - cycles[i].startTime
        /\ cycles[i].duration > MIN_CYCLE_TIME

\* a Cycle of the shortest duration above the minimum has been emitted
C2_Witness ==
    /\ Len(cycles) = 1
    /\ cycles[1].duration = MIN_CYCLE_TIME + StepMs
    /\ logicState = "COOLDOWN"

\* C3 as stated: for two consecutive Cycles the later startTime is at
\* least 1.5 s after the earlier endTime.
C3_CooldownGap ==
    \A i \in ConsecutivePairs :
        cycles[i + 1].startTime >= cycles[i].endTime + COOLDOWN_TIME

\* C3 amended: while the controller is in COOLDOWN no cycle starts and none
\* is emitted, and it leaves COOLDOWN only on a processed frame whose
\* timestamp is later than the last Cycle's endTime + 1.5 s, or when
\* analysis is stopped; so in a session that was never stopped and whose
\* timestamp never jumped backwards, consecutive Cycles are more than 1.5 s
\* apart.
C3_CooldownStep ==
    logicState = "COOLDOWN" =>
        /\ logicState' # "TRIGGERED"
        /\ cycles' = cycles
        /\ cooldownTimer = cycles[Len(cycles)].endTime + COOLDOWN_TIME
        /\ logicState' # "COOLDOWN" =>
              \/ mode = "running" /\ mode' = "setup"
              \/ /\ ScoredFrame
                 /\ videoTime > cycles[Len(cycles)].endTime + COOLDOWN_TIME
                 /\ logicState' = "IDLE"

C3_UninterruptedGap ==
    ~interrupted =>
        \A i \in ConsecutivePairs :
            cycles[i + 1].startTime > cycles[i].endTime + COOLDOWN_TIME

C3_CooldownExclusion == [][C3_CooldownStep]_vars /\ [](C3_UninterruptedGap)

\* two consecutive Cycles of an uninterrupted forward session
C3_Witness == Len(cycles) = 2 /\ ~interrupted

Smooth == signalState.smooth

\* C4: hysteresis.  On a processed frame in TRIGGERED whose smoothed score
\* is strictly between lowThreshold and highThreshold the state stays
\* TRIGGERED and nothing is emitted; a Cycle is emitted only from TRIGGERED,
\* one at a time, on a score below lowThreshold with more than
\* MIN_CYCLE_TIME elapsed, and the emission leaves TRIGGERED.
C4_HysteresisStep ==
    /\ (ScoredFrame /\ logicState = "TRIGGERED"
            /\ Smooth' > lowThreshold /\ Smooth' < highThreshold)
         => (logicState' = "TRIGGERED" /\ cycles' = cycles)
    /\ cycles' # cycles =>
         /\ Emitted
         /\ ScoredFrame
         /\ logicState = "TRIGGERED" /\ logicState' = "COOLDOWN"
         /\ Smooth' < lowThreshold
         /\ videoTime - cycleStartTime > MIN_CYCLE_TIME

C4_Hysteresis == [][C4_HysteresisStep]_vars

\* the controller is holding TRIGGERED on a score between the thresholds
C4_Witness ==
    /\ logicState = "TRIGGERED"
    /\ visualState = "Working..."
    /\ Smooth > lowThreshold /\ Smooth < highThreshold
    /\ videoTime - cycleStartTime > MIN_CYCLE_TIME

\* C5: on a processed frame in IDLE the controller moves to TRIGGERED
\* exactly when the smoothed score is strictly greater than highThreshold,
\* and then cycleStartTime is the frame's timestamp; no other step enters
\* TRIGGERED, and from IDLE nothing is emitted.
C5_TriggerStep ==
    /\ (ScoredFrame /\ logicState = "IDLE") =>
          /\ (logicState' = "TRIGGERED") <=> (Smooth' > highThreshold)
          /\ (logicState' = "TRIGGERED") => (cycleStartTime' = videoTime)
          /\ logicState' \in {"IDLE", "TRIGGERED"}
    /\ (logicState # "TRIGGERED" /\ logicState' = "TRIGGERED") =>
          (ScoredFrame /\ logicState = "IDLE")
    /\ logicState = "IDLE" => cycles' = cycles

C5_Trigger == [][C5_TriggerStep]_vars

\* the controller has just triggered on the current frame
C5_Witness ==
    /\ logicState = "TRIGGERED"
    /\ visualState = "WORK STARTED"
    /\ cycleStartTime = videoTime
    /\ Smooth > highThreshold

\* C6: on a processed frame in TRIGGERED whose score is below lowThreshold
\* with timestamp - cycleStartTime > MIN_CYCLE_TIME exactly one Cycle is
\* emitted, with startTime = cycleStartTime, endTime = timestamp,
\* duration = their difference and status 'over' if duration > taktTime,
\* else 'ok'; the state becomes COOLDOWN and cooldownTimer = timestamp + 1.5.
C6_CompletionStep ==
    (ScoredFrame /\ logicState = "TRIGGERED" /\ Smooth' < lowThreshold
        /\ videoTime - cycleStartTime > MIN_CYCLE_TIME)
    => /\ Emitted
       /\ SubSeq(cycles', 1, Len(cycles)) = cycles
       /\ cycles'[Len(cycles')].startTime = cycleStartTime
       /\ cycles'[Len(cycles')].endTime = videoTime
       /\ cycles'[Len(cycles')].duration = videoTime - cycleStartTime
       /\ cycles'[Len(cycles')].status =
             (IF videoTime - cycleStartTime > taktTime THEN "over" ELSE "ok")
       /\ logicState' = "COOLDOWN"
       /\ cooldownTimer' = videoTime + COOLDOWN_TIME

C6_Completion == [][C6_CompletionStep]_vars

\* a Cycle as long as the takt time has been emitted, and is 'ok'
C6_Witness ==
    /\ Len(cycles) = 1
    /\ logicState = "COOLDOWN"
    /\ cycles[1].duration = taktTime
    /\ cycles[1].status = "ok"
    /\ cooldownTimer = cycles[1].endTime + COOLDOWN_TIME

\* C7: on a processed frame in TRIGGERED whose score is below lowThreshold
\* with timestamp - cycleStartTime <= MIN_CYCLE_TIME nothing is emitted and
\* the controller goes to IDLE, not COOLDOWN, leaving cooldownTimer alone;
\* from the state after a discard a frame that triggers is possible.
C7_DiscardStep ==
    (ScoredFrame /\ logicState = "TRIGGERED" /\ Smooth' < lowThreshold
        /\ videoTime - cycleStartTime <= MIN_CYCLE_TIME)
    => /\ cycles' = cycles
       /\ logicState' = "IDLE"
       /\ cooldownTimer' = cooldownTimer
       /\ visualState' = "False Trigger (Too Short)"

C7_Discarded ==
    /\ visualState = "False Trigger (Too Short)"
    /\ logicState = "IDLE"
    /\ ~paused

C7_RetriggerPossible ==
    C7_Discarded => ENABLED (Frame /\ logicState' = "TRIGGERED")

C7_FalseTrigger == [][C7_DiscardStep]_vars /\ [](C7_RetriggerPossible)

\* a trigger that lasted exactly MIN_CYCLE_TIME has just been discarded
C7_Witness ==
    /\ C7_Discarded
    /\ videoTime - cycleStartTime = MIN_CYCLE_TIME
    /\ cycles = <<>>

(***************************************************************************)
(* Claims about the end-to-end scenario.                                    *)
(***************************************************************************)
\* the scenario has played past the fall of the raw score and the release
\* lag of the smoothed score
ScenarioSettled == videoTime > ScenarioFall + 8 * FRAME_GATE

\* C8 as stated: in scenario B exactly one Cycle is emitted, and its status
\* is 'ok' if taktTime >= 2.0 s, otherwise 'over'.
C8_StatusByNominalDuration ==
    /\ Len(cycles) <= 1
    /\ ScenarioSettled => Len(cycles) = 1
    /\ Len(cycles) = 1 =>
          cycles[1].status =
              (IF taktTime >= ScenarioFall - ScenarioRise THEN "ok" ELSE "over")

\* C8 amended: in scenario B exactly one Cycle is emitted; its startTime is
\* the third frame at 0.5 (0.10 s to 0.19 s after 1.0 s), its endTime the
\* seventh frame at 0 (0.30 s to 0.39 s after 3.0 s), its duration lies
\* between 2.15 s and 2.25 s, and its status is 'ok' exactly when taktTime
\* is at least that measured duration, so 'over' for a takt time of 2.0 s.
C8_ScenarioB ==
    /\ Len(cycles) <= 1
    /\ ScenarioSettled => Len(cycles) = 1
    /\ Len(cycles) = 1 =>
          /\ cycles[1].startTime - ScenarioRise \in
                 (2 * FRAME_GATE)..(4 * FRAME_GATE - 1)
          /\ cycles[1].endTime - ScenarioFall \in
                 (6 * FRAME_GATE)..(8 * FRAME_GATE - 1)
          /\ cycles[1].duration = cycles[1].endTime - cycles[1].startTime
          /\ cycles[1].duration \in {2150, 2200, 2250}
          /\ cycles[1].status = "ok" <=> taktTime >= cycles[1].duration
          /\ taktTime = ScenarioFall - ScenarioRise => cycles[1].status = "over"

\* the scenario has played to its end with a takt time of 2.0 s
C8_Witness ==
    /\ videoTime + FRAME_GATE >= duration
    /\ highThreshold = 2000
    /\ taktTime = ScenarioFall - ScenarioRise
    /\ Len(cycles) = 1
    /\ logicState = "IDLE"

(***************************************************************************)
(* Claims about the reference model and the change scorer.                  *)
(***************************************************************************)
ZoneRectChanged ==
    /\ Len(triggerSteps') > 0
    /\ \/ Len(triggerSteps) = 0
       \/ triggerSteps'[1].rect # triggerSteps[1].rect

\* the reference held, if any, was captured from zone 0's current rect
ReferenceFresh ==
    (startRefMat # NoMat /\ Len(triggerSteps) > 0)
        => startRefMat.src = triggerSteps[1].rect

\* C9: whenever zone 0's rect changes (drag, redraw, replacement of the zone
\* list) a previously captured reference is cleared, so no frame is scored
\* against a reference captured from another rect and no Cycle is emitted
\* from one.
C9_InvalidationStep ==
    /\ ZoneRectChanged => startRefMat' = NoMat
    /\ (SetupFrame /\ ScoringEnabled) => ReferenceFresh
    /\ Emitted => ReferenceFresh

C9_ReferenceInvalidation == [][C9_InvalidationStep]_vars

\* the offset-adjusted zone, floored and cut to the frame, is at most one
\* pixel wide or high (or lies outside the frame)
ZoneDegenerate ==
    LET x == Floor(scoreCall.rect.x + scoreCall.offset.x)
        y == Floor(scoreCall.rect.y + scoreCall.offset.y)
        w == Floor(scoreCall.rect.width)
        h == Floor(scoreCall.rect.height)
    IN  \/ Min(x + w, ScoreCols) - Max(x, 0) <= PX
        \/ Min(y + h, ScoreRows) - Max(y, 0) <= PX

\* C10: calculateChangeScore never throws to its caller; it returns 0 when
\* the reference is missing or deleted, when the offset-adjusted zone is
\* degenerate after clamping or out of bounds, or when a CV step fails; and
\* its result always lies in [0,1].
C10_ScoreTotal ==
    scoreCall.result # Pending =>
        /\ scoreCall.result.kind = "return"
        /\ (\/ scoreCall.refMat = NoMat
            \/ scoreCall.refMat.deleted
            \/ ZoneDegenerate
            \/ scoreCall.cv.fails) => scoreCall.result.value = 0
        /\ scoreCall.result.value >= 0
        /\ scoreCall.result.value <= 10000

\* a zone across the right edge of the frame has been scored against a live
\* reference of the clamped size, and the score is strictly inside (0,1)
C10_Witness ==
    /\ scoreCall.result.kind = "return"
    /\ scoreCall.result.value > 0
    /\ scoreCall.result.value < 10000
    /\ Floor(scoreCall.rect.x + scoreCall.offset.x)
           + Floor(scoreCall.rect.width) > ScoreCols
    /\ ~ZoneDegenerate
    /\ ~scoreCall.cv.fails

(***************************************************************************)
(* Claims about anchor tracking.                                            *)
(***************************************************************************)
\* an anchor box is drawn and its template is held
Tracked == anchorMat # NoMat /\ anchorRect # NoRect

\* a pass of processFrame on which OpenCV computes the correlation match
MatchedFrame(match) ==
    /\ Tracked
    /\ ~match.fails
    /\ TemplateFits(anchorRect, VideoWidth, VideoHeight)
    /\ \E rawScore \in TrackScores : trackedFrame(rawScore, match)

\* C11: on a tracked frame whose correlation is at most 0.6 the tracking
\* offset keeps its last accepted value and the lost flag is set; on one
\* whose correlation exceeds 0.6 the offset becomes the found position minus
\* the anchor box's position and the lost flag is cleared
C11_TrackingFallback ==
    [][\A match \in TrackMatches :
          MatchedFrame(match) =>
              IF match.maxVal > MATCH_THRESHOLD
              THEN /\ trackingOffset' =
                         [x |-> FoundPosition(anchorRect, match, VideoWidth,
                                              VideoHeight).x - anchorRect.x,
                          y |-> FoundPosition(anchorRect, match, VideoWidth,
                                              VideoHeight).y - anchorRect.y]
                   /\ ~isTrackingLost'
              ELSE /\ trackingOffset' = trackingOffset
                   /\ isTrackingLost']_vars

\* C12: a change of the video source (a file upload, or a new project while
\* a video is loaded) leaves the controller IDLE, the signal state zero, the
\* tracking offset (0,0), no reference, no anchor template, no anchor box,
\* no zone, and the mode setup
C12_FullReset ==
    [][(FileUpload \/ handleNewProject) =>
          /\ logicState' = "IDLE"
          /\ signalState' = ZeroSignal
          /\ trackingOffset' = [x |-> 0, y |-> 0]
          /\ startRefMat' = NoMat
          /\ anchorMat' = NoMat
          /\ anchorRect' = NoRect
          /\ triggerSteps' = <<>>
          /\ mode' = "setup"]_vars

\* a reset has just run on a session that had an anchor box, had lost
\* tracking and had a zone in the frame loop
C12_Witness ==
    /\ notice = Status("System Reset. Please configure zones.")
    /\ closureAnchorRect # NoRect
    /\ isTrackingLost
    /\ anchorRect = NoRect /\ anchorMat = NoMat /\ triggerSteps = <<>>

(***************************************************************************)
(* Claims about arming, stopping and reference capture.                     *)
(***************************************************************************)
\* a click on the ARM SYSTEM button
ArmClick == mode = "setup" /\ ArmStopClick

\* C13: the arm action is rejected when no zone is drawn or no reference is
\* held: mode stays setup and playback is not started; so the engine enters
\* running mode only from a state in which zone 0 exists and a reference
\* captured for it is held
C13_ArmStep ==
    /\ (ArmClick /\ (Len(triggerSteps) = 0 \/ startRefMat = NoMat))
          => (mode' = "setup" /\ paused' = paused)
    /\ (mode = "setup" /\ mode' = "running")
          => /\ Len(triggerSteps) > 0
             /\ startRefMat # NoMat
             /\ startRefMat.src = triggerSteps[1].rect

C13_ArmingPrecondition == [][C13_ArmStep]_vars

\* C14: the stop action sets the controller to IDLE, and from the stop until
\* the next arm action a processed frame computes no score, makes no state
\* transition and emits no Cycle, even when the video is played in setup
\* mode
C14_StoppedStep ==
    /\ (mode = "running" /\ ArmStopClick) => logicState' = "IDLE"
    /\ (mode = "setup" /\ Frame)
          => UNCHANGED <<signalState, logicState, cycles>>

C14_StopHalts == [][C14_StoppedStep]_vars

\* zone 0 is missing, or is at most one pixel wide or high once floored and
\* cut to the frame
NoUsableZone ==
    \/ Len(triggerSteps) = 0
    \/ extractRoiMat(triggerSteps[1].rect, VideoWidth, VideoHeight) = NoMat

\* C15: a reference capture on a degenerate zone, on a missing zone, or one
\* whose frame capture throws leaves the engine state, the held reference
\* and the arming precondition as they were, and shows the user a warning
\* or status
C15_FailedCaptureStep ==
    \A cv \in {"ok", "frame"} :
        (captureReference("start", cv) /\ (cv = "frame" \/ NoUsableZone))
            => /\ UNCHANGED <<startRefMat, refImagesStart, signalState,
                              logicVars, cycles>>
               /\ notice'.via # "none"

C15_FailedCapture == [][C15_FailedCaptureStep]_vars

(***************************************************************************)
(* Claims about the motion classifier.                                      *)
(***************************************************************************)
\* the smoothed average hand velocity after the sample
AvgVel == (aiState.leftHandVel + aiState.rightHandVel) \div 2

\* the pose sample has been classified
Classified == ~poseResults.pending /\ poseResults.poseLandmarks

\* C16: for every pose sample the result is IDLE if the smoothed average
\* hand velocity v is below 0.005, TRANSPORT if v >= 0.02 and the average
\* extension d exceeds 0.4, OPERATION otherwise
C16_Classification ==
    Classified =>
        currentAction =
            IF AvgVel < MOVE_THRESHOLD THEN "IDLE"
            ELSE IF AvgVel >= REACH_THRESHOLD
                    /\ Extension(poseResults) > REACH_EXTENSION
                 THEN "TRANSPORT"
            ELSE "OPERATION"

\* C16: each hand's velocity is smoothed as 0.7 * old + 0.3 * instant, the
\* instant velocity of the first sample being 0
C16_SmoothingStep ==
    (onPoseResults /\ poseResults.poseLandmarks) =>
        /\ 10 * aiState'.leftHandVel = 7 * aiState.leftHandVel
              + 3 * (IF aiState.lastPos.known
                     THEN Abs(poseResults.leftWrist.x - aiState.lastPos.left.x)
                     ELSE 0)
        /\ 10 * aiState'.rightHandVel = 7 * aiState.rightHandVel
              + 3 * (IF aiState.lastPos.known
                     THEN Abs(poseResults.rightWrist.x
                              - aiState.lastPos.right.x)
                     ELSE 0)

C16_Smoothing == [][C16_SmoothingStep]_vars

(***************************************************************************)
(* Claims about status messages and tracking loss.                          *)
(***************************************************************************)
\* the step calls onStatusUpdate
StatusShown == notice'.via = "status"

\* C17: a status message is emitted through onStatusUpdate on a reference
\* capture, an anchor capture, a trigger, a cycle completion, a cooldown
\* expiry, a loss of tracking and a discarded false trigger
C17_StatusStep ==
    /\ (startRefMat' # startRefMat /\ startRefMat' # NoMat) => StatusShown
    /\ (anchorMat' # anchorMat /\ anchorMat' # NoMat) => StatusShown
    /\ (ScoredFrame /\ logicState = "IDLE" /\ logicState' = "TRIGGERED")
          => StatusShown
    /\ (ScoredFrame /\ Emitted) => StatusShown
    /\ (ScoredFrame /\ logicState = "COOLDOWN" /\ logicState' = "IDLE")
          => StatusShown
    /\ (~isTrackingLost /\ isTrackingLost') => StatusShown
    /\ (ScoredFrame /\ logicState = "TRIGGERED" /\ logicState' = "IDLE")
          => StatusShown

C17_StatusOnEvents == [][C17_StatusStep]_vars

\* C18: detection is not paused while tracking is lost: a processed frame
\* that leaves the lost flag set still computes the change score, updates
\* the smoothed signal and steps the logic controller
C18_LostStep ==
    \A match \in TrackMatches, rawScore \in TrackScores :
        (/\ trackedFrame(rawScore, match)
         /\ isTrackingLost'
         /\ startRefMat # NoMat /\ Len(triggerSteps) > 0)
            => signalState' =
                   [raw        |-> rawScore,
                    smooth     |-> EMA(rawScore, signalState.prevSmooth),
                    prevSmooth |-> EMA(rawScore, signalState.prevSmooth)]

C18_ScoringWhileLost == [][C18_LostStep]_vars

\* C19: a frame processed in COOLDOWN ignores the score: it neither
\* triggers nor emits, and its only transition is COOLDOWN -> IDLE, taken
\* exactly when the frame's timestamp is strictly greater than
\* cooldownTimer; whatever that frame's score, the controller is IDLE (not
\* TRIGGERED) after it
C19_CooldownFrame ==
    (logicState = "COOLDOWN" /\ ScoredFrame) =>
        /\ cycles' = cycles
        /\ logicState' = IF videoTime > cooldownTimer THEN "IDLE"
                         ELSE "COOLDOWN"
        /\ UNCHANGED <<cycleStartTime, cooldownTimer>>

C19_CooldownIgnoresScore == [][C19_CooldownFrame]_vars

\* the cooldown has just expired on a frame whose smoothed score exceeds
\* highThreshold: the controller is IDLE, not TRIGGERED
C19_Witness ==
    /\ logicState = "IDLE" /\ visualState = "Ready"
    /\ Len(cycles) = 1
    /\ videoTime > cooldownTimer
    /\ signalState.smooth > highThreshold

(***************************************************************************)
(* Claims about the thresholds.                                             *)
(***************************************************************************)
\* for an integer sensitivity s from 1 to 10, highThreshold is
\* max(0.01, 0.35 - 0.02 s), lowThreshold is 0.6 highThreshold, and
\* 0 < lowThreshold < highThreshold
C20_ThresholdValues ==
    sensitivity \in Sensitivities =>
        /\ highThreshold =
              (IF 3500 - 2 * sensitivity * 10 > 100
               THEN 3500 - 2 * sensitivity * 10 ELSE 100)
        /\ 10 * lowThreshold = 6 * highThreshold
        /\ 0 < lowThreshold
        /\ lowThreshold < highThreshold

\* a step that does not lower the sensitivity raises neither threshold
C20_MonotoneStep ==
    sensitivity' >= sensitivity =>
        (highThreshold' <= highThreshold /\ lowThreshold' <= lowThreshold)

\* C20: for every integer sensitivity in 1..10 the thresholds have the
\* stated values, 0 < lowThreshold < highThreshold, and both thresholds are
\* non-increasing in the sensitivity
C20_Thresholds == []C20_ThresholdValues /\ [][C20_MonotoneStep]_vars

\* at sensitivity 10 a smoothed score that is below the default
\* sensitivity's highThreshold has triggered
C20_Witness ==
    /\ sensitivity = 10 * 10
    /\ logicState = "TRIGGERED"
    /\ signalState.smooth > highThreshold
    /\ signalState.smooth < Max(100, 3500 - 20 * DefaultSensitivity)

(***************************************************************************)
(* Claims about resets, the search window and the Cycle label.              *)
(***************************************************************************)
\* C21: the signal state is reset on a mode change: after STOP (running to
\* setup) and after ARM (setup to running) raw, smooth and prevSmooth are 0
C21_ModeChangeStep == (mode' # mode) => signalState' = ZeroSignal

C21_SignalResetOnModeChange == [][C21_ModeChangeStep]_vars

(***************************************************************************)
(* Anchor tracking on a frame wider than the search margin: an anchor box   *)
(* was drawn and locked, the project has no zone, the video plays.          *)
(***************************************************************************)
\* video.videoWidth and video.videoHeight of the wide video, 200 px
WideWidth  == 200 * PX
WideHeight == 200 * PX

\* the anchor boxes drawn: 20 px wide; 10, 30 or 60 px from the left and top
WindowAnchors ==
    {[x |-> x * PX, y |-> y * PX, width |-> 20 * PX, height |-> 20 * PX] :
        x \in {10, 30, 60}, y \in {10, 30, 60}}

InitWindow ==
    /\ videoTime = 0
    /\ paused = FALSE
    /\ duration = SetupDuration
    /\ triggerSteps = <<>>
    /\ sensitivity = DefaultSensitivity
    /\ taktTime = EngineTaktTime
    /\ mode = "setup"
    /\ setupSubMode = "none"
    /\ refImagesStart = FALSE
    /\ drawingRect = NoRect
    /\ dragStart = NoPoint
    /\ draggingStepId = NoId
    /\ dragOffset = [x |-> 0, y |-> 0]
    /\ startRefMat = NoMat
    /\ signalState = ZeroSignal
    /\ logicState = "IDLE"
    /\ cycleStartTime = 0
    /\ cooldownTimer = 0
    /\ visualState = ResetText
    /\ currentAction = "IDLE"
    /\ aiState = InitialAiState
    /\ anchorRect \in WindowAnchors
    /\ anchorMat = extractRoiMat(anchorRect, WideWidth, WideHeight)
    /\ trackingOffset = [x |-> 0, y |-> 0]
    /\ isTrackingLost = FALSE
    /\ closureAnchorRect = anchorRect
    /\ cycles = <<>>
    /\ notice = NoNotice
    /\ interrupted = FALSE
    /\ scoreCall = "none"
    /\ poseResults = NoPose
    /\ GateIdle
    /\ ToolsIdle

\* one pass of processFrame on the wide video: trackAnchor, and no scoring
\* since there is no zone
WindowFrame ==
    \E match \in TrackMatches :
        /\ ~paused
        /\ trackAnchor(match, WideWidth, WideHeight)
        /\ scoreFrame(0)
        /\ UNCHANGED <<videoVars, propVars, uiVars, startRefMat,
                       currentAction, aiState, anchorRect, anchorMat,
                       closureAnchorRect, interrupted, scoreCall, poseResults, gateVars, toolVars>>

NextWindow == WindowFrame

SpecWindow == InitWindow /\ [][NextWindow]_vars

\* C22: an accepted match changes the tracking offset by at most the 50 px
\* margin per axis in a single frame, also when the last known position is
\* within 50 px of the left or top frame edge
C22_OffsetStep ==
    /\ Abs(trackingOffset'.x - trackingOffset.x) <= TRACK_MARGIN * PX
    /\ Abs(trackingOffset'.y - trackingOffset.y) <= TRACK_MARGIN * PX

C22_OffsetChangeBounded == [][C22_OffsetStep]_vars

(***************************************************************************)
(* The throttle gates of processFrame: a configured session, the video      *)
(* paused, on a display that calls processFrame every refreshInterval ms.   *)
(* The two polling timers of the initialisation effect may not have seen    *)
(* the libraries yet.  Every frame shows the empty zone.                    *)
(***************************************************************************)
\* the refresh intervals followed: 120 Hz, 60 Hz, 30 Hz and a throttled tab
RefreshIntervals == {8, 16, 33, 100}

\* what MediaPipe finds on the images sent: nobody, or somebody whose
\* wrists are at rest
GatePoses ==
    {[pending |-> TRUE, poseLandmarks |-> lm,
      leftWrist |-> [x |-> NoseX - REACH_EXTENSION, y |-> PoseY],
      rightWrist |-> [x |-> NoseX + REACH_EXTENSION, y |-> PoseY],
      nose |-> [x |-> NoseX, y |-> PoseY]] : lm \in BOOLEAN}

InitGate ==
    /\ ConfiguredSession
    /\ aiState = InitialAiState
    /\ scoreCall = "none"
    /\ poseResults = NoPose
    \* useRef<number>(0): no change-detection step and no request so far
    /\ sinceProcess = ClockCap
    /\ sincePose = ClockCap
    /\ isCvReady \in BOOLEAN
    /\ isAiReady \in BOOLEAN
    /\ refreshInterval \in RefreshIntervals
    /\ ToolsIdle

\* checkCv, every 500 ms: setIsCvReady(true); processFrame is re-created
checkCv ==
    /\ ~isCvReady
    /\ isCvReady' = TRUE
    /\ closureAnchorRect' = anchorRect
    /\ notice' = NoNotice
    /\ UNCHANGED <<videoVars, propVars, uiVars, engineVars, aiState,
                   anchorRect, anchorMat, trackingOffset, isTrackingLost,
                   cycles, interrupted, scoreCall, poseResults, sinceProcess,
                   sincePose, isAiReady, refreshInterval, toolVars>>

\* checkPose, every 500 ms: poseRef.current = pose; setIsAiReady(true)
checkPose ==
    /\ ~isAiReady
    /\ isAiReady' = TRUE
    /\ closureAnchorRect' = anchorRect
    /\ notice' = NoNotice
    /\ UNCHANGED <<videoVars, propVars, uiVars, engineVars, aiState,
                   anchorRect, anchorMat, trackingOffset, isTrackingLost,
                   cycles, interrupted, scoreCall, poseResults, sinceProcess,
                   sincePose, isCvReady, refreshInterval, toolVars>>

\* the next animation frame
GateFrame ==
    \E pose \in GatePoses :
        animationFrame(refreshInterval, 0, NoMatch, pose)

NextGate ==
    \/ GateFrame
    \/ onPoseResults
    \/ checkCv
    \/ checkPose
    \/ togglePlay
    \/ ArmStopClick

SpecGate == InitGate /\ [][NextGate]_vars

\* the last callback sent a pose request
PoseRequested == sincePose = 0

\* C24: two consecutive change-detection steps are at least 50 ms apart and
\* two consecutive pose requests are more than 66 ms apart, also when the CV
\* library is not ready but the pose model is
C24_GateStep ==
    GateFrame =>
        /\ ~Throttled(refreshInterval)
               => sinceProcess + refreshInterval >= FRAME_GATE
        /\ PoseGateOpen(refreshInterval)
               => sincePose + refreshInterval > POSE_GATE

C24_RateCapped == [][C24_GateStep]_vars

\* the browser keeps calling back: requestAnimationFrame is re-armed at
\* every exit of processFrame, MediaPipe answers every request, and the two
\* polling timers keep firing; the user is under no obligation
SpecGateFair ==
    /\ InitGate
    /\ [][NextGate]_vars
    /\ WF_vars(GateFrame)
    /\ WF_vars(onPoseResults)
    /\ WF_vars(checkCv)
    /\ WF_vars(checkPose)

\* running, the video playing, OpenCV and the pose model ready
Feeding == mode = "running" /\ ~paused /\ isCvReady /\ isAiReady

\* C25: while running with the video playing and both libraries ready, a
\* pose request is sent again and again, whatever the refresh interval
C25_PoseEventuallySent == []<>(~Feeding \/ PoseRequested)

(***************************************************************************)
(* The labelled Cycle: an armed session with both libraries ready, on a     *)
(* display that calls processFrame every 2 * FRAME_GATE ms, so that every   *)
(* frame feeds the pose model and takes a change-detection step.  The       *)
(* operator's left wrist swings between two places, one of them stretched   *)
(* out.  The session is followed up to its first Cycle.                     *)
(***************************************************************************)
\* the left wrist's places: extended beyond 0.4 on average, and not
LabelLeftXs == {NoseX - REACH_EXTENSION - 2000, NoseX - REACH_EXTENSION + 3000}

\* what MediaPipe finds on the image sent: nobody, or the operator with the
\* left wrist at the place where it was not the last time
LabelPoses ==
    {[pending |-> TRUE, poseLandmarks |-> lm,
      leftWrist |-> [x |-> lx, y |-> PoseY],
      rightWrist |-> [x |-> NoseX + REACH_EXTENSION, y |-> PoseY],
      nose |-> [x |-> NoseX, y |-> PoseY]] :
         lm \in BOOLEAN,
         lx \in {x \in LabelLeftXs : ~aiState.lastPos.known
                                         \/ x # aiState.lastPos.left.x}}

InitLabel ==
    /\ videoTime = 0
    /\ paused = FALSE
    /\ duration = SetupDuration
    /\ triggerSteps = <<Step(EngineZone)>>
    /\ sensitivity = DefaultSensitivity
    /\ taktTime = EngineTaktTime
    /\ mode = "running"
    /\ setupSubMode = "none"
    /\ refImagesStart = TRUE
    /\ drawingRect = NoRect
    /\ dragStart = NoPoint
    /\ draggingStepId = NoId
    /\ dragOffset = [x |-> 0, y |-> 0]
    /\ startRefMat = extractRoiMat(EngineZone, VideoWidth, VideoHeight)
    /\ signalState = ZeroSignal
    /\ logicState = "IDLE"
    /\ cycleStartTime = 0
    /\ cooldownTimer = 0
    /\ visualState = ResetText
    /\ currentAction = "IDLE"
    /\ aiState = InitialAiState
    /\ Untracked
    /\ cycles = <<>>
    /\ notice = NoNotice
    /\ interrupted = FALSE
    /\ scoreCall = "none"
    /\ poseResults = NoPose
    /\ sinceProcess = 0
    /\ sincePose = ClockCap
    /\ isCvReady = TRUE
    /\ isAiReady = TRUE
    /\ refreshInterval = 2 * FRAME_GATE
    /\ ToolsIdle

LabelFrame ==
    \E rawScore \in FrameScores, pose \in LabelPoses :
        animationFrame(refreshInterval, rawScore, NoMatch, pose)

\* no Cycle was emitted so far
Unlabelled == cycles = <<>>

NextLabel ==
    \/ Unlabelled /\ LabelFrame
    \/ Unlabelled /\ onPoseResults
    \/ Unlabelled /\ VideoAdvance

SpecLabel == InitLabel /\ [][NextLabel]_vars

\* C23: the label of an emitted Cycle is 'Transport' if and only if the
\* classifier's current action is TRANSPORT at the moment of completion, and
\* 'Operation' otherwise, IDLE included; no other label is emitted
C23_LabelStep ==
    (Len(cycles') = Len(cycles) + 1) =>
        /\ cycles'[Len(cycles')].aiLabel \in {"Transport", "Operation"}
        /\ cycles'[Len(cycles')].aiLabel = "Transport"
               <=> currentAction = "TRANSPORT"
        /\ currentAction' = currentAction

C23_LabelIsSnapshot == [][C23_LabelStep]_vars

\* a Cycle was completed while the classifier's action was TRANSPORT
C23_Witness ==
    /\ cycles # <<>>
    /\ cycles[1].aiLabel = "Transport"
    /\ currentAction = "TRANSPORT"

(***************************************************************************)
(* The cooldown on the looping video of DurationSteps steps: the state a    *)
(* configured session reaches by ARM, a trigger at 0 and a completion at    *)
(* endTime, followed under continued playback until the cooldown is over.   *)
(***************************************************************************)
\* the last sampled timestamp before the video loops
LastSample == (DurationSteps - 1) * StepMs

\* the video timestamps at which the first Cycle can end; left out is the
\* one whose cooldown ends between the last sampled timestamp and the end
\* of the video, where unsampled frames decide
CycleEnds ==
    {t \in {k * StepMs : k \in 0..DurationSteps - 1} :
        t > MIN_CYCLE_TIME /\ t + COOLDOWN_TIME # LastSample}

\* the first Cycle, completed at endTime
CycleEndingAt(endTime) ==
    [startTime |-> 0, endTime |-> endTime, duration |-> endTime,
     status |-> IF endTime > EngineTaktTime THEN "over" ELSE "ok",
     aiLabel |-> "Operation"]

InitCooldown ==
    /\ videoTime \in CycleEnds
    /\ paused = FALSE
    /\ duration = DurationSteps * StepMs
    /\ triggerSteps = <<Step(EngineZone)>>
    /\ sensitivity = DefaultSensitivity
    /\ taktTime = EngineTaktTime
    /\ mode = "running"
    /\ setupSubMode = "none"
    /\ refImagesStart = TRUE
    /\ drawingRect = NoRect
    /\ dragStart = NoPoint
    /\ draggingStepId = NoId
    /\ dragOffset = [x |-> 0, y |-> 0]
    /\ startRefMat = extractRoiMat(EngineZone, VideoWidth, VideoHeight)
    /\ signalState = [raw |-> 480, smooth |-> 1200, prevSmooth |-> 1200]
    /\ logicState = "COOLDOWN"
    /\ cycleStartTime = 0
    /\ cooldownTimer = videoTime + COOLDOWN_TIME
    /\ visualState = "Cycle Finished"
    /\ currentAction = "IDLE"
    /\ aiState = InitialAiState
    /\ Untracked
    /\ cycles = <<CycleEndingAt(videoTime)>>
    /\ notice = Status("Cycle Logged")
    /\ interrupted = FALSE
    /\ scoreCall = "none"
    /\ poseResults = NoPose
    /\ GateIdle
    /\ ToolsIdle

\* the cooldown is not over yet
InCooldown == logicState = "COOLDOWN"

NextCooldown ==
    \/ InCooldown /\ Frame
    \/ InCooldown /\ VideoAdvance

\* the video keeps playing, and while it shows one of the sampled
\* timestamps (0.5 s) several frames are processed (one every 50 ms)
SpecCooldownFair ==
    /\ InitCooldown
    /\ [][NextCooldown]_vars
    /\ WF_vars(InCooldown /\ VideoAdvance)
    /\ \A k \in 0..DurationSteps - 1 :
           SF_vars(InCooldown /\ videoTime = k * StepMs /\ Frame)

\* C26: under continued playback with frames being processed, a controller
\* in COOLDOWN eventually returns to IDLE, also when the video loops back
\* to 0 before the timestamp has passed cooldownTimer
C26_CooldownEnds == <>(logicState = "IDLE")

\* C27: whenever no anchor template is held (never captured, or invalidated
\* by an anchor redraw or by a video change), the tracking-lost flag is false
C27_NoTemplateNotLost == (anchorMat = NoMat) => ~isTrackingLost

\* C28: while mode is running the zone configuration is frozen: zone 0
\* exists, its rect is the one the held reference was captured for, and no
\* step taken in running mode adds, removes, moves or replaces a zone
C28_FrozenStep ==
    (mode = "running" /\ mode' = "running") => triggerSteps' = triggerSteps

C28_ZonesFrozenWhileRunning ==
    /\ [](mode = "running" =>
              /\ Len(triggerSteps) > 0
              /\ startRefMat # NoMat
              /\ startRefMat.src = triggerSteps[1].rect)
    /\ [][C28_FrozenStep]_vars

(***************************************************************************)
(* Line balancing: Rearrangement.autoBalanceRPW                             *)
(* (src/components/Rearrangement.tsx).  Task times and the takt time are    *)
(* integers in seconds.  Task k of the pool has id k.                       *)
(***************************************************************************)
\* the number of tasks in the pool
RpwTasks == 3
\* if (newStations.length > 50) break
MAX_STATIONS == 50

\* all variables of the analyzer
analyzerVars ==
    <<videoVars, propVars, uiVars, engineVars, aiState, trackVars, cycles,
      notice, interrupted, scoreCall, poseResults, gateVars>>

\* the analyzer as it is mounted, no video loaded
AnalyzerIdle ==
    /\ videoTime = 0
    /\ paused = TRUE
    /\ duration = NoDuration
    /\ triggerSteps = <<>>
    /\ sensitivity = DefaultSensitivity
    /\ taktTime = EngineTaktTime
    /\ mode = "setup"
    /\ setupSubMode = "none"
    /\ refImagesStart = FALSE
    /\ drawingRect = NoRect
    /\ dragStart = NoPoint
    /\ draggingStepId = NoId
    /\ dragOffset = [x |-> 0, y |-> 0]
    /\ startRefMat = NoMat
    /\ signalState = ZeroSignal
    /\ logicState = "IDLE"
    /\ cycleStartTime = 0
    /\ cooldownTimer = 0
    /\ visualState = ResetText
    /\ currentAction = "IDLE"
    /\ aiState = InitialAiState
    /\ Untracked
    /\ cycles = <<>>
    /\ notice = NoNotice
    /\ interrupted = FALSE
    /\ scoreCall = "none"
    /\ poseResults = NoPose
    /\ GateIdle

RpwIds == 1..RpwTasks

\* task totals (ht + wt + mt) below and above the takt times
RpwTimes == {1, 3}
RpwTaktTimes == {2, 3}

\* the pools: task k has id k
RpwPools ==
    {[k \in RpwIds |-> [id |-> k, total |-> times[k]]] :
        times \in [RpwIds -> RpwTimes]}

\* the dependency maps toggleDependency builds, one predecessor at most:
\* no task depends on itself, no two tasks depend on each other
RpwDependencies ==
    {d \in [RpwIds -> {{}} \cup {{p} : p \in RpwIds}] :
        \A a \in RpwIds : a \notin d[a]
                           /\ \A b \in d[a] : a \notin d[b]}

\* originalPool.filter(t => dependencies[t.id]?.includes(taskId))
Successors(dependencies, taskId) ==
    {t \in DOMAIN dependencies : taskId \in dependencies[t]}

\* downstreamIds: the breadth-first search of getWeight
RECURSIVE Downstream(_, _, _)
Downstream(dependencies, queue, downstreamIds) ==
    IF queue \subseteq downstreamIds THEN downstreamIds
    ELSE Downstream(dependencies,
                    UNION {Successors(dependencies, c) : c \in queue},
                    downstreamIds \cup queue)

\* Array.from(downstreamIds).reduce((sum, id) => sum + total, 0)
RECURSIVE SumTotals(_, _)
SumTotals(pool, ids) ==
    IF ids = {} THEN 0
    ELSE LET id == CHOOSE i \in ids : TRUE
         IN  pool[id].total + SumTotals(pool, ids \ {id})

\* getWeight(taskId): task.total + downstreamTime
getWeight(pool, dependencies, taskId) ==
    pool[taskId].total
    + SumTotals(pool, Downstream(dependencies,
                                 Successors(dependencies, taskId), {}))

\* tasksWithWeight: .sort((a, b) => b.weight - a.weight), a stable sort
tasksWithWeight(pool, dependencies) ==
    LET w(k) == getWeight(pool, dependencies, k)
        order == CHOOSE f \in [RpwIds -> RpwIds] :
                     /\ \A a, b \in RpwIds : a # b => f[a] # f[b]
                     /\ \A a, b \in RpwIds :
                            a < b => \/ w(f[a]) > w(f[b])
                                     \/ w(f[a]) = w(f[b]) /\ f[a] < f[b]
    IN  [k \in RpwIds |-> pool[order[k]]]

\* remainingTasks.findIndex(t => currentStationTime + t.total <= taktTime
\*                               && arePredecessorsMet(t.id)), 0 for -1
candidateIdx ==
    LET fits(k) ==
            /\ rpw.currentStationTime + rpw.remainingTasks[k].total
                   <= rpw.taktTime
            /\ rpw.dependencies[rpw.remainingTasks[k].id]
                   \subseteq rpw.assignedIds
        found == {k \in DOMAIN rpw.remainingTasks : fits(k)}
    IN  IF found = {} THEN 0 ELSE CHOOSE k \in found : \A j \in found : k <= j

\* remainingTasks.splice(candidateIdx, 1)
Splice(seq, idx) ==
    [k \in 1..Len(seq) - 1 |-> IF k < idx THEN seq[k] ELSE seq[k + 1]]

\* while (newStations.length < 3) newStations.push([])
PadStations(stationList) ==
    IF Len(stationList) >= 3 THEN stationList
    ELSE stationList \o [k \in 1..3 - Len(stationList) |-> <<>>]

\* the balance button: weights, sort, and the first test of the outer loop
autoBalanceRPW ==
    /\ rpw.pc = "idle"
    /\ rpw' = [rpw EXCEPT
                  !.remainingTasks = tasksWithWeight(rpw.pool,
                                                     rpw.dependencies),
                  !.newStations = <<>>,
                  !.assignedIds = {},
                  !.currentStation = <<>>,
                  !.currentStationTime = 0,
                  !.pc = "fill"]
    /\ UNCHANGED <<analyzerVars, twin>>

\* one pass of the inner loop that finds a candidate
assignTask ==
    /\ rpw.pc = "fill"
    /\ candidateIdx # 0
    /\ rpw' = [rpw EXCEPT
                  !.currentStation =
                      Append(@, rpw.remainingTasks[candidateIdx]),
                  !.currentStationTime =
                      @ + rpw.remainingTasks[candidateIdx].total,
                  !.assignedIds =
                      @ \cup {rpw.remainingTasks[candidateIdx].id},
                  !.remainingTasks = Splice(@, candidateIdx)]
    /\ UNCHANGED <<analyzerVars, twin>>

\* the pass that finds none: the station is pushed, then the safety break
\* and the test of the outer loop; at the exit the list is padded and
\* handed to setStations
closeStation ==
    /\ rpw.pc = "fill"
    /\ candidateIdx = 0
    /\ LET pushed == Append(rpw.newStations, rpw.currentStation)
       IN  IF Len(pushed) > MAX_STATIONS \/ rpw.remainingTasks = <<>>
           THEN rpw' = [rpw EXCEPT !.newStations = PadStations(pushed),
                                   !.pc = "done"]
           ELSE rpw' = [rpw EXCEPT !.newStations = pushed,
                                   !.currentStation = <<>>,
                                   !.currentStationTime = 0]
    /\ UNCHANGED <<analyzerVars, twin>>

InitRpw ==
    /\ AnalyzerIdle
    /\ twin = NoTwin
    /\ \E pool \in RpwPools, takt \in RpwTaktTimes,
          dependencies \in RpwDependencies :
          rpw = [NoRpw EXCEPT !.pool = pool, !.taktTime = takt,
                              !.dependencies = dependencies]

NextRpw ==
    \/ autoBalanceRPW
    \/ assignTask
    \/ closeStation

SpecRpw == InitRpw /\ [][NextRpw]_vars

\* the number of places task id has in the stations
Placements(id) ==
    Cardinality({<<st, k>> \in (DOMAIN rpw.newStations) \X RpwIds :
                    /\ k \in DOMAIN rpw.newStations[st]
                    /\ rpw.newStations[st][k].id = id})

\* C29: when autoBalanceRPW has returned, every task of the pool is in
\* exactly one station of the list handed to setStations
C29_EveryTaskPlacedOnce ==
    (rpw.pc = "done") => \A id \in RpwIds : Placements(id) = 1

(***************************************************************************)
(* The production digital twin: ProductionDigitalTwin.runSimulationStep     *)
(* and gameLoop (src/components/ProductionDigitalTwin.tsx).  Simulated      *)
(* time is in units of 0.25 s, what one callback every 50 ms advances at    *)
(* speed 5.  gameLoop and runSimulationStep are the functions of the        *)
(* render in which the play effect last ran (dependencies isPlaying and     *)
(* speed): the simTime they read is the one of that render.  twin.lag is    *)
(* how far the simTime state is ahead of it, and twin.due[i] is             *)
(* nextFreeTime[i] minus the simTime the loop reads.  progress and          *)
(* totalTimeState, which only feed the display, are left out.               *)
(***************************************************************************)
\* the number of stations of the line
TwinStations == 2
\* twin.lag saturates at TwinCap units
TwinCap == 3
\* totalProcessed and finishedCount are followed up to TwinCount
TwinCount == 2
\* mapTasksToStations: currentWIP: idx === 0 ? 50 : 0
INITIAL_WIP == 50
\* mapTasksToStations: bufferSize: 3
BUFFER_SIZE == 3
\* TRANSIT_SPEED = 2.0: a transit takes 0.5 s, two units
TRANSIT_TICKS == 2
\* useState(5): the default speed
DefaultSpeed == 5

TwinIds == 1..TwinStations

\* the speed buttons followed: 5x and 10x
TwinSpeeds == {DefaultSpeed, 2 * DefaultSpeed}

\* deltaSimTime = deltaRealTime * speed, in units
DeltaSimTime(speed) == speed \div DefaultSpeed

\* generateNoise(baseCycleTime, variance) / operators, in units
TwinCycleTimes == {2, 3}

\* counters are followed up to TwinCount
Counted(n) == Min(n, TwinCount)

\* mapTasksToStations(tasks)
mapTasksToStations ==
    [k \in TwinIds |->
        [currentWIP |-> IF k = 1 THEN INITIAL_WIP ELSE 0,
         bufferSize |-> BUFFER_SIZE,
         status |-> "IDLE",
         totalProcessed |-> 0]]

\* the twin after its initialisation effect
InitialTwin ==
    [isPlaying |-> FALSE, speed |-> DefaultSpeed, lag |-> 0,
     stations |-> mapTasksToStations,
     transits |-> <<>>,
     due |-> [k \in TwinIds |-> 0],
     inProcess |-> [k \in TwinIds |-> FALSE],
     finishedCount |-> 0, event |-> "none"]

\* state.transits.forEach: progress, arrivals, removal of the arrived
Arrived(t, deltaTime) == t.progress + deltaTime >= TRANSIT_TICKS

Arrivals(transits, deltaTime, toIdx) ==
    Cardinality({k \in DOMAIN transits :
                    /\ Arrived(transits[k], deltaTime)
                    /\ transits[k].toIdx = toIdx})

InTransit(t) == t.progress < TRANSIT_TICKS

UpdateTransits(st, deltaTime) ==
    [st EXCEPT
       !.finishedCount = Counted(@ + Arrivals(st.transits, deltaTime, 0)),
       !.stations = [k \in TwinIds |->
                        [@[k] EXCEPT !.currentWIP =
                             @ + Arrivals(st.transits, deltaTime, k)]],
       !.transits = SelectSeq([k \in DOMAIN st.transits |->
                                  [st.transits[k] EXCEPT
                                      !.progress = @ + deltaTime]],
                              InTransit)]

\* the body of the station loop for station i; actualCT is the cycle time
\* drawn if work starts; toIdx 0 stands for -1, the exit
StationStep(st, i, actualCT) ==
    LET isOutputBlocked ==
            /\ i < TwinStations
            /\ st.stations[i + 1].currentWIP >= st.stations[i + 1].bufferSize
    IN  IF st.inProcess[i] THEN
            \* if (simTime >= state.nextFreeTime[i])
            IF st.due[i] <= 0 THEN
                IF ~isOutputBlocked THEN
                    [st EXCEPT
                       !.inProcess[i] = FALSE,
                       !.stations[i].status = "BUSY",
                       !.stations[i].totalProcessed = Counted(@ + 1),
                       !.transits =
                           Append(@, [toIdx |-> IF i < TwinStations
                                                THEN i + 1 ELSE 0,
                                      progress |-> 0]),
                       !.event = "finish"]
                ELSE [st EXCEPT !.stations[i].status = "BLOCKED"]
            ELSE [st EXCEPT !.stations[i].status = "BUSY"]
        ELSE IF st.stations[i].currentWIP > 0 THEN
            [st EXCEPT !.stations[i].currentWIP = @ - 1,
                       !.stations[i].status = "BUSY",
                       !.inProcess[i] = TRUE,
                       \* state.nextFreeTime[i] = simTime + actualCT
                       !.due[i] = actualCT]
        ELSE IF i = 1 THEN
            [st EXCEPT !.stations[i].status = "BUSY",
                       !.inProcess[i] = TRUE,
                       !.due[i] = actualCT]
        ELSE [st EXCEPT !.stations[i].status = "STARVED"]

\* for (let i = numStations - 1; i >= 0; i--)
RECURSIVE StationLoop(_, _, _)
StationLoop(st, i, cycleTimes) ==
    IF i = 0 THEN st
    ELSE StationLoop(StationStep(st, i, cycleTimes[i]), i - 1, cycleTimes)

\* runSimulationStep(deltaTime)
runSimulationStep(st, deltaTime, cycleTimes) ==
    StationLoop(UpdateTransits(st, deltaTime), TwinStations, cycleTimes)

\* gameLoop(timestamp): setSimTime(prev => prev + deltaSimTime), then the
\* step, then requestAnimationFrame(gameLoop)
gameLoop ==
    /\ twin.isPlaying
    /\ \E cycleTimes \in [TwinIds -> TwinCycleTimes] :
          twin' = runSimulationStep(
                      [twin EXCEPT
                          !.lag = Min(@ + DeltaSimTime(twin.speed), TwinCap),
                          !.event = "tick"],
                      DeltaSimTime(twin.speed), cycleTimes)
    /\ UNCHANGED <<analyzerVars, rpw>>

\* the play effect runs: the loop restarts with the functions of the
\* current render, which read the current simTime
Restarted(st) ==
    [st EXCEPT !.due = [k \in TwinIds |-> Max(st.due[k] - st.lag, 0)],
               !.lag = 0]

\* the SIMULATE / PAUSE button: setIsPlaying(!isPlaying)
toggleSimulation ==
    /\ twin' = IF twin.isPlaying
               THEN [twin EXCEPT !.isPlaying = FALSE, !.event = "pause"]
               ELSE [Restarted(twin) EXCEPT !.isPlaying = TRUE,
                                            !.event = "restart"]
    /\ UNCHANGED <<analyzerVars, rpw>>

\* a speed button: setSpeed(s)
setSpeed(s) ==
    /\ s # twin.speed
    /\ twin' = IF twin.isPlaying
               THEN [Restarted(twin) EXCEPT !.speed = s, !.event = "restart"]
               ELSE [twin EXCEPT !.speed = s, !.event = "none"]
    /\ UNCHANGED <<analyzerVars, rpw>>

SpeedButton == \E s \in TwinSpeeds : setSpeed(s)

InitTwin ==
    /\ AnalyzerIdle
    /\ rpw = NoRpw
    /\ twin = InitialTwin

NextTwin ==
    \/ gameLoop
    \/ toggleSimulation
    \/ SpeedButton

\* the browser keeps calling gameLoop back; the user is under no obligation
SpecTwinFair == InitTwin /\ [][NextTwin]_vars /\ WF_vars(gameLoop)

\* the last step paused the simulation or restarted its loop
TwinInterrupted == ~twin.isPlaying \/ twin.event = "restart"

\* C30: while the simulation keeps playing without pause or speed change,
\* the stations keep finishing the items they started, so that
\* totalProcessed and finishedCount keep growing
C30_StationsKeepFinishing == []<>(TwinInterrupted \/ twin.event = "finish")

================================================================================
